---- MODULE Spec2Model ----
(***************************************************************************)
(* Harvester MCP server: the resource-type table, the generic resource     *)
(* access layer, the formatter registry with its per-kind formatters, and  *)
(* the tool handlers registered by the MCP server.                         *)
(*                                                                         *)
(* A rendered text is a sequence of lines; a line is the sequence of the   *)
(* string pieces fmt.Sprintf puts on it (the literal parts of the format   *)
(* string and the values substituted for its verbs), so that "the text     *)
(* contains the name" is a statement about the pieces. The bullet that     *)
(* opens a list item is written "*".                                       *)
(***************************************************************************)
EXTENDS Integers, Sequences, FiniteSets, TLC

(***************************************************************************)
(* Values of an unstructured document (map[string]interface{}): a tagged   *)
(* union of string, int64, bool, map and slice.                            *)
(***************************************************************************)
VStr(s) == [t |-> "string", v |-> s]

VInt(n) == [t |-> "int64", v |-> n]

VBool(b) == [t |-> "bool", v |-> b]

VMap(f) == [t |-> "map", v |-> f]

VList(q) == [t |-> "slice", v |-> q]

Nil == [t |-> "nil", v |-> ""]

EmptyMap == [k \in {} |-> Nil]

\* unstructured.NestedFieldNoCopy: walk the path; a missing key or a
\* non-map on the way gives found = FALSE.
RECURSIVE NestedFieldNoCopy(_, _)
NestedFieldNoCopy(val, fields) ==
    IF fields = <<>> THEN [found |-> TRUE, val |-> val]
    ELSE IF val.t # "map" THEN [found |-> FALSE, val |-> Nil]
    ELSE IF Head(fields) \notin DOMAIN val.v THEN [found |-> FALSE, val |-> Nil]
    ELSE NestedFieldNoCopy(val.v[Head(fields)], Tail(fields))

\* unstructured.NestedString and friends: found only when the value at the
\* path has the asked type.
NestedTyped(obj, fields, type) ==
    LET r == NestedFieldNoCopy(obj, fields)
    IN  IF r.found /\ r.val.t = type THEN r ELSE [found |-> FALSE, val |-> Nil]

getNestedString(obj, fields) ==
    LET r == NestedTyped(obj, fields, "string")
    IN  IF ~r.found THEN "" ELSE r.val.v

getNestedInt64(obj, fields) ==
    LET r == NestedTyped(obj, fields, "int64")
    IN  IF ~r.found THEN 0 ELSE r.val.v

getNestedBool(obj, fields) ==
    LET r == NestedTyped(obj, fields, "bool")
    IN  IF ~r.found THEN FALSE ELSE r.val.v

getNestedMap(obj, fields) ==
    LET r == NestedTyped(obj, fields, "map")
    IN  IF ~r.found THEN EmptyMap ELSE r.val.v

\* unstructured.NestedSlice: the slice at the path, or an empty one.
NestedSlice(obj, fields) ==
    LET r == NestedTyped(obj, fields, "slice")
    IN  IF ~r.found THEN <<>> ELSE r.val.v

\* unstructured.NestedStringSlice: not found when an element is no string.
NestedStringSlice(obj, fields) ==
    LET q == NestedSlice(obj, fields)
    IN  IF \A i \in DOMAIN q : q[i].t = "string"
        THEN [i \in DOMAIN q |-> q[i].v] ELSE <<>>

getNestedStringSlice(obj, fields) == NestedStringSlice(obj, fields)

\* unstructured.NestedStringMap: not found when a value is no string.
NestedStringMap(obj, fields) ==
    LET m == getNestedMap(obj, fields)
    IN  IF \A k \in DOMAIN m : m[k].t = "string"
        THEN [k \in DOMAIN m |-> m[k].v] ELSE EmptyMap

(***************************************************************************)
(* Accessors of unstructured.Unstructured used by the formatters.          *)
(***************************************************************************)
GetKind(res) == getNestedString(res, <<"kind">>)

GetName(res) == getNestedString(res, <<"metadata", "name">>)

GetNamespace(res) == getNestedString(res, <<"metadata", "namespace">>)

GetLabels(res) == NestedStringMap(res, <<"metadata", "labels">>)

GetAnnotations(res) == NestedStringMap(res, <<"metadata", "annotations">>)

ZeroTime == "0001-01-01T00:00:00Z"

\* res.GetCreationTimestamp().Format(time.RFC3339): the stored RFC3339
\* string parsed and printed back; the zero time when it is not set.
CreationTime(res) ==
    LET s == getNestedString(res, <<"metadata", "creationTimestamp">>)
    IN  IF s = "" THEN ZeroTime ELSE s

(***************************************************************************)
(* fmt verbs.                                                              *)
(***************************************************************************)
\* %d
RECURSIVE Itoa(_)
Itoa(n) ==
    LET Digit(d) == CASE d = 0 -> "0" [] d = 1 -> "1" [] d = 2 -> "2" [] d = 3 -> "3"
                      [] d = 4 -> "4" [] d = 5 -> "5" [] d = 6 -> "6" [] d = 7 -> "7"
                      [] d = 8 -> "8" [] d = 9 -> "9"
    IN  IF n < 0 THEN "-" \o Itoa(0 - n)
        ELSE IF n < 10 THEN Digit(n)
        ELSE Itoa(n \div 10) \o Digit(n % 10)

\* %t
FmtBool(b) == IF b THEN "true" ELSE "false"

\* %v of one value: scalars print as themselves, a nested map or slice
\* prints on the same line, without descending into separate lines.
FmtV(val) ==
    CASE val.t = "string" -> val.v
      [] val.t = "int64" -> Itoa(val.v)
      [] val.t = "bool" -> FmtBool(val.v)
      [] val.t = "map" -> "map[...]"
      [] val.t = "slice" -> "[...]"
      [] OTHER -> "<nil>"

\* Largest number of keys of one map whose visiting order is enumerated.
MaxRange == 3

\* The visiting orders a `range` over a map can take: Go leaves the order
\* to the runtime, so every permutation is possible.
Orders == {p \in [1..MaxRange -> 1..MaxRange] : \A i, j \in 1..MaxRange : p[i] = p[j] => i = j}

\* `for key, value := range m`: the keys of the map in the order ord
\* selects among the permutations of the keys.
RangeKeys(keys, ord) ==
    LET n == Cardinality(keys)
        base == CHOOSE q \in [1..n -> keys] : \A i, j \in 1..n : q[i] = q[j] => i = j
        p == SelectSeq(ord, LAMBDA i : i <= n)
    IN  [i \in 1..n |-> base[IF i <= Len(p) THEN p[i] ELSE i]]

RECURSIVE Flatten(_)
Flatten(seqs) == IF seqs = <<>> THEN <<>> ELSE Head(seqs) \o Flatten(Tail(seqs))

\* one "  key: value" line per entry of a string map
MapLines(prefix, m, ord) ==
    LET ks == RangeKeys(DOMAIN m, ord)
    IN  [i \in DOMAIN ks |-> <<prefix, ks[i], ": ", m[ks[i]]>>]

\* one "  key: %v" line per entry of a map of values
MapLinesV(prefix, m, ord) ==
    LET ks == RangeKeys(DOMAIN m, ord)
    IN  [i \in DOMAIN ks |-> <<prefix, ks[i], ": ", FmtV(m[ks[i]])>>]

Blank == <<>>


IfLines(cond, lines) == IF cond THEN lines ELSE <<>>

\* len(group) of the group the i-th item is appended to
\* len(list.Items) where the loops print the length of the group
GroupSize_Whole(keys, i) == Len(keys)

GroupSize(keys, i) == Cardinality({j \in DOMAIN keys : keys[j] = keys[i]})

\* The grouping loops of the list formatters: items are appended to
\* byKey[key of the item] in list order, then the groups are visited in
\* map order; every group prints its header, its items and a blank line.
\* keys[i] is the grouping key of the i-th item, lines[i] are the lines
\* printed for it and headers[i] is the header line of its group.
GroupedLines(lines, keys, headers, ord) ==
    LET ks == RangeKeys({keys[i] : i \in DOMAIN keys}, ord)
        at(k) == SelectSeq([i \in DOMAIN keys |-> i], LAMBDA i : keys[i] = k)
    IN  Flatten([j \in DOMAIN ks |->
            <<headers[at(ks[j])[1]]>>
            \o Flatten([i \in DOMAIN at(ks[j]) |-> lines[at(ks[j])[i]]])
            \o <<Blank>>])

\* item.GetNamespace() of every item of a list
NamespacesOf(list) == [i \in DOMAIN list |-> GetNamespace(list[i])]

\* The container block shared by the pod and the deployment detail views.
ContainerLines(i, containerObj, ord) ==
    IF containerObj.t # "map" THEN <<>>
    ELSE LET name == getNestedString(containerObj, <<"name">>)
             image == getNestedString(containerObj, <<"image">>)
             resources == NestedTyped(containerObj, <<"resources">>, "map")
             limits == NestedTyped(resources.val, <<"limits">>, "map")
             requests == NestedTyped(resources.val, <<"requests">>, "map")
         IN  << <<"  ", Itoa(i), ". ", name>>, <<"     Image: ", image>> >>
             \o IfLines(resources.found,
                    << <<"     Resources:">> >>
                    \o IfLines(limits.found, MapLinesV("       Limits ", limits.val.v, ord))
                    \o IfLines(requests.found, MapLinesV("       Requests ", requests.val.v, ord)))
             \o <<Blank>>

(***************************************************************************)
(* PodFormatter                                                            *)
(***************************************************************************)
\* The pod status without the override by status.reason.
PodStatus_PhaseOnly(res) == getNestedString(res, <<"status", "phase">>)

PodStatus(res) ==
    LET status == getNestedString(res, <<"status", "phase">>)
        reason == getNestedString(res, <<"status", "reason">>)
    IN  IF reason # "" THEN reason ELSE status

PodFormatter_FormatResource(res, ord) ==
    LET nodeName == getNestedString(res, <<"spec", "nodeName">>)
        podIP == getNestedString(res, <<"status", "podIP">>)
        qosClass == getNestedString(res, <<"status", "qosClass">>)
        labels == GetLabels(res)
        containers == NestedSlice(res, <<"spec", "containers">>)
    IN  << <<"Pod: ", GetName(res)>>,
           <<"Namespace: ", GetNamespace(res)>>,
           <<"Status: ", PodStatus(res)>> >>
        \o IfLines(nodeName # "", << <<"Node: ", nodeName>> >>)
        \o IfLines(podIP # "", << <<"Pod IP: ", podIP>> >>)
        \o << <<"Created: ", CreationTime(res)>>,
              <<"QoS Class: ", qosClass>> >>
        \o IfLines(DOMAIN labels # {},
               <<Blank, <<"Labels:">> >> \o MapLines("  ", labels, ord))
        \o IfLines(Len(containers) > 0,
               <<Blank, <<"Containers:">> >>
               \o Flatten([i \in DOMAIN containers |-> ContainerLines(i, containers[i], ord)]))

\* number of container statuses with ready = true
ReadyCount(containerStatuses) ==
    Cardinality({i \in DOMAIN containerStatuses :
        /\ containerStatuses[i].t = "map"
        /\ NestedTyped(containerStatuses[i], <<"ready">>, "bool").found
        /\ getNestedBool(containerStatuses[i], <<"ready">>)})

RECURSIVE TotalRestarts(_)
TotalRestarts(containerStatuses) ==
    IF containerStatuses = <<>> THEN 0
    ELSE (IF Head(containerStatuses).t = "map"
          THEN getNestedInt64(Head(containerStatuses), <<"restartCount">>) ELSE 0)
         + TotalRestarts(Tail(containerStatuses))

PodListItem(pod) ==
    LET containerStatuses == NestedSlice(pod, <<"status", "containerStatuses">>)
        containers == NestedSlice(pod, <<"spec", "containers">>)
        nodeName == getNestedString(pod, <<"spec", "nodeName">>)
        podIP == getNestedString(pod, <<"status", "podIP">>)
    IN  << <<"  * ", GetName(pod)>>,
           <<"    Status: ", PodStatus(pod)>>,
           <<"    Ready: ", Itoa(ReadyCount(containerStatuses)), "/",
             Itoa(Len(containers)), " containers">> >>
        \o IfLines(nodeName # "", << <<"    Node: ", nodeName>> >>)
        \o IfLines(podIP # "", << <<"    IP: ", podIP>> >>)
        \o << <<"    Created: ", CreationTime(pod)>>,
              <<"    Restarts: ", Itoa(TotalRestarts(containerStatuses))>>,
              Blank >>

\* FormatResourceList of the pod formatter without the check of
\* len(list.Items): an empty collection gets the count line.
PodFormatter_FormatResourceList_CountsEmpty(list, ord) ==
    << <<"Found ", Itoa(Len(list)), " pod(s):">>, Blank >>
    \o LET keys == NamespacesOf(list)
       IN  GroupedLines([i \in DOMAIN list |-> PodListItem(list[i])], keys,
               [i \in DOMAIN list |-> <<"Namespace: ", keys[i], " (", Itoa(GroupSize(keys, i)), " pods)">>],
               ord)

PodFormatter_FormatResourceList(list, ord) ==
    IF Len(list) = 0 THEN << <<"No pods found in the specified namespace(s).">> >>
    ELSE << <<"Found ", Itoa(Len(list)), " pod(s):">>, Blank >>
         \o LET keys == NamespacesOf(list)
            IN  GroupedLines([i \in DOMAIN list |-> PodListItem(list[i])], keys,
                    [i \in DOMAIN list |-> <<"Namespace: ", keys[i], " (", Itoa(GroupSize(keys, i)), " pods)">>],
                    ord)

(***************************************************************************)
(* ServiceFormatter                                                        *)
(***************************************************************************)
ServicePortLines(portObj) ==
    IF portObj.t # "map" THEN <<>>
    ELSE LET portNumber == getNestedInt64(portObj, <<"port">>)
             targetPort == NestedFieldNoCopy(portObj, <<"targetPort">>).val
             protocol == getNestedString(portObj, <<"protocol">>)
             name == getNestedString(portObj, <<"name">>)
         IN  IF name # ""
             THEN << <<"  ", name, ":">>,
                     <<"    Port: ", Itoa(portNumber)>>,
                     <<"    Target Port: ", FmtV(targetPort)>>,
                     <<"    Protocol: ", protocol>>, Blank >>
             ELSE << <<"  Port: ", Itoa(portNumber)>>,
                     <<"  Target Port: ", FmtV(targetPort)>>,
                     <<"  Protocol: ", protocol>>, Blank >>

ServiceFormatter_FormatResource(res, ord) ==
    LET svcType == getNestedString(res, <<"spec", "type">>)
        clusterIP == getNestedString(res, <<"spec", "clusterIP">>)
        externalIPs == NestedStringSlice(res, <<"spec", "externalIPs">>)
        selector == NestedTyped(res, <<"spec", "selector">>, "map")
        ports == NestedSlice(res, <<"spec", "ports">>)
    IN  << <<"Service: ", GetName(res)>>,
           <<"Namespace: ", GetNamespace(res)>>,
           <<"Type: ", svcType>>,
           <<"Cluster IP: ", clusterIP>> >>
        \o IfLines(Len(externalIPs) > 0,
               << <<"External IPs:">> >>
               \o [i \in DOMAIN externalIPs |-> <<"  ", externalIPs[i]>>])
        \o IfLines(selector.found /\ DOMAIN selector.val.v # {},
               <<Blank, <<"Selector:">> >> \o MapLinesV("  ", selector.val.v, ord))
        \o IfLines(Len(ports) > 0,
               <<Blank, <<"Ports:">> >>
               \o Flatten([i \in DOMAIN ports |-> ServicePortLines(ports[i])]))
        \o << <<"Created: ", CreationTime(res)>> >>

ServiceListPortLine(portObj) ==
    IF portObj.t # "map" THEN <<>>
    ELSE LET portNumber == getNestedInt64(portObj, <<"port">>)
             targetPort == NestedFieldNoCopy(portObj, <<"targetPort">>).val
             protocol == getNestedString(portObj, <<"protocol">>)
             name == getNestedString(portObj, <<"name">>)
             portInfo == IF name # "" THEN <<name, ":", Itoa(portNumber)>>
                         ELSE <<Itoa(portNumber)>>
         IN  << <<"      ">> \o portInfo \o <<" -> ", FmtV(targetPort), "/", protocol>> >>

ServiceListItem(svc) ==
    LET svcType == getNestedString(svc, <<"spec", "type">>)
        clusterIP == getNestedString(svc, <<"spec", "clusterIP">>)
        ports == NestedSlice(svc, <<"spec", "ports">>)
        externalIPs == NestedStringSlice(svc, <<"spec", "externalIPs">>)
    IN  << <<"  * ", GetName(svc)>>,
           <<"    Type: ", svcType>>,
           <<"    Cluster IP: ", clusterIP>> >>
        \o IfLines(Len(ports) > 0,
               << <<"    Ports:">> >>
               \o Flatten([i \in DOMAIN ports |-> ServiceListPortLine(ports[i])]))
        \o IfLines(Len(externalIPs) > 0,
               << <<"    External IPs:">> >>
               \o [i \in DOMAIN externalIPs |-> <<"      ", externalIPs[i]>>])
        \o << <<"    Created: ", CreationTime(svc)>>, Blank >>

ServiceFormatter_FormatResourceList(list, ord) ==
    IF Len(list) = 0 THEN << <<"No services found in the specified namespace(s).">> >>
    ELSE << <<"Found ", Itoa(Len(list)), " service(s):">>, Blank >>
         \o LET keys == NamespacesOf(list)
            IN  GroupedLines([i \in DOMAIN list |-> ServiceListItem(list[i])], keys,
                    [i \in DOMAIN list |-> <<"Namespace: ", keys[i], " (", Itoa(GroupSize(keys, i)), " services)">>],
                    ord)

(***************************************************************************)
(* NamespaceFormatter                                                      *)
(***************************************************************************)
NamespaceFormatter_FormatResource(res, ord) ==
    LET status == getNestedString(res, <<"status", "phase">>)
        labels == GetLabels(res)
        annotations == GetAnnotations(res)
    IN  << <<"Namespace: ", GetName(res)>>,
           <<"Status: ", status>>,
           <<"Created: ", CreationTime(res)>> >>
        \o IfLines(DOMAIN labels # {},
               <<Blank, <<"Labels:">> >> \o MapLines("  ", labels, ord))
        \o IfLines(DOMAIN annotations # {},
               <<Blank, <<"Annotations:">> >> \o MapLines("  ", annotations, ord))

NamespaceListItem(ns) ==
    << <<"* ", GetName(ns)>>,
       <<"  Status: ", getNestedString(ns, <<"status", "phase">>)>>,
       <<"  Created: ", CreationTime(ns)>>,
       Blank >>

NamespaceFormatter_FormatResourceList(list, ord) ==
    IF Len(list) = 0 THEN << <<"No namespaces found.">> >>
    ELSE << <<"Found ", Itoa(Len(list)), " namespace(s):">>, Blank >>
         \o Flatten([i \in DOMAIN list |-> NamespaceListItem(list[i])])


(***************************************************************************)
(* NodeFormatter                                                           *)
(***************************************************************************)
\* The detail view's loop over status.conditions: the first map entry
\* whose type and status are strings and whose type is "Ready" decides.
RECURSIVE NodeStatus(_)
NodeStatus(conditions) ==
    IF conditions = <<>> THEN "Unknown"
    ELSE LET cond == Head(conditions)
             typeName == NestedTyped(cond, <<"type">>, "string")
             statusVal == NestedTyped(cond, <<"status">>, "string")
         IN  IF cond.t = "map" /\ typeName.found /\ statusVal.found
                /\ typeName.val.v = "Ready"
             THEN (IF statusVal.val.v = "True" THEN "Ready" ELSE "NotReady")
             ELSE NodeStatus(Tail(conditions))

NodeConditionLines(condObj) ==
    IF condObj.t # "map" THEN <<>>
    ELSE LET typeName == getNestedString(condObj, <<"type">>)
             statusVal == getNestedString(condObj, <<"status">>)
             message == getNestedString(condObj, <<"message">>)
         IN  << <<"  ", typeName, ": ", statusVal>> >>
             \o IfLines(message # "", << <<"    Message: ", message>> >>)

NodeAddressLines(addrObj) ==
    IF addrObj.t # "map" THEN <<>>
    ELSE LET addrType == NestedTyped(addrObj, <<"type">>, "string")
             addrVal == NestedTyped(addrObj, <<"address">>, "string")
         IN  IfLines(addrType.found /\ addrVal.found,
                 << <<"  ", addrType.val.v, ": ", addrVal.val.v>> >>)

NodeFormatter_FormatResource(res, ord) ==
    LET conditions == NestedSlice(res, <<"status", "conditions">>)
        addresses == NestedSlice(res, <<"status", "addresses">>)
        nodeInfo == getNestedMap(res, <<"status", "nodeInfo">>)
        allocatable == getNestedMap(res, <<"status", "allocatable">>)
        capacity == getNestedMap(res, <<"status", "capacity">>)
    IN  << <<"Node: ", GetName(res)>>,
           <<"Status: ", NodeStatus(conditions)>>,
           Blank, <<"Conditions:">> >>
        \o Flatten([i \in DOMAIN conditions |-> NodeConditionLines(conditions[i])])
        \o IfLines(Len(addresses) > 0,
               <<Blank, <<"Addresses:">> >>
               \o Flatten([i \in DOMAIN addresses |-> NodeAddressLines(addresses[i])]))
        \o IfLines(DOMAIN nodeInfo # {},
               <<Blank, <<"Node Info:">> >> \o MapLinesV("  ", nodeInfo, ord))
        \o IfLines(DOMAIN allocatable # {},
               <<Blank, <<"Allocatable Resources:">> >> \o MapLinesV("  ", allocatable, ord))
        \o IfLines(DOMAIN capacity # {},
               <<Blank, <<"Capacity:">> >> \o MapLinesV("  ", capacity, ord))
        \o <<Blank, <<"Created: ", CreationTime(res)>> >>

\* The list view's loop declares a new `status` inside the loop body
\* (status, statusFound, _ := ...), so the assignments made there never
\* reach the variable that is printed: it keeps its initial value.
NodeListStatus(conditions) == "Ready"

\* the last address of the given type, "" when there is none
RECURSIVE NodeAddress(_, _)
NodeAddress(addresses, type) ==
    IF addresses = <<>> THEN ""
    ELSE LET addr == addresses[Len(addresses)]
             addrType == NestedTyped(addr, <<"type">>, "string")
             addrVal == NestedTyped(addr, <<"address">>, "string")
         IN  IF addr.t = "map" /\ addrType.found /\ addrVal.found
                /\ addrType.val.v = type
             THEN addrVal.val.v
             ELSE NodeAddress(SubSeq(addresses, 1, Len(addresses) - 1), type)

NodeListItem(node) ==
    LET conditions == NestedSlice(node, <<"status", "conditions">>)
        addresses == NestedSlice(node, <<"status", "addresses">>)
        internalIP == NodeAddress(addresses, "InternalIP")
        externalIP == NodeAddress(addresses, "ExternalIP")
        hostname == NodeAddress(addresses, "Hostname")
        kubeletVersion == getNestedString(node, <<"status", "nodeInfo", "kubeletVersion">>)
        allocatable == getNestedMap(node, <<"status", "allocatable">>)
        cpu == IF "cpu" \in DOMAIN allocatable THEN FmtV(allocatable["cpu"]) ELSE ""
        memory == IF "memory" \in DOMAIN allocatable THEN FmtV(allocatable["memory"]) ELSE ""
    IN  << <<"* ", GetName(node)>>,
           <<"  Status: ", NodeListStatus(conditions)>> >>
        \o IfLines(internalIP # "", << <<"  Internal IP: ", internalIP>> >>)
        \o IfLines(externalIP # "", << <<"  External IP: ", externalIP>> >>)
        \o IfLines(hostname # "" /\ hostname # GetName(node),
               << <<"  Hostname: ", hostname>> >>)
        \o IfLines(kubeletVersion # "", << <<"  Kubelet Version: ", kubeletVersion>> >>)
        \o IfLines(cpu # "" \/ memory # "",
               << <<"  Allocatable:">> >>
               \o IfLines(cpu # "", << <<"    CPU: ", cpu>> >>)
               \o IfLines(memory # "", << <<"    Memory: ", memory>> >>))
        \o << <<"  Created: ", CreationTime(node)>>, Blank >>

NodeFormatter_FormatResourceList(list, ord) ==
    IF Len(list) = 0 THEN << <<"No nodes found.">> >>
    ELSE << <<"Found ", Itoa(Len(list)), " node(s):">>, Blank >>
         \o Flatten([i \in DOMAIN list |-> NodeListItem(list[i])])

(***************************************************************************)
(* DeploymentFormatter                                                     *)
(***************************************************************************)
DeploymentConditionLines(condObj) ==
    IF condObj.t # "map" THEN <<>>
    ELSE LET typeName == getNestedString(condObj, <<"type">>)
             statusVal == getNestedString(condObj, <<"status">>)
             reason == getNestedString(condObj, <<"reason">>)
             message == getNestedString(condObj, <<"message">>)
         IN  << <<"  ", typeName, ": ", statusVal>> >>
             \o IfLines(reason # "", << <<"    Reason: ", reason>> >>)
             \o IfLines(message # "", << <<"    Message: ", message>> >>)

DeploymentFormatter_FormatResource(res, ord) ==
    LET replicas == getNestedInt64(res, <<"spec", "replicas">>)
        available == getNestedInt64(res, <<"status", "availableReplicas">>)
        ready == getNestedInt64(res, <<"status", "readyReplicas">>)
        updated == getNestedInt64(res, <<"status", "updatedReplicas">>)
        strategy == getNestedString(res, <<"spec", "strategy", "type">>)
        selector == NestedTyped(res, <<"spec", "selector", "matchLabels">>, "map")
        containers == NestedSlice(res, <<"spec", "template", "spec", "containers">>)
        conditions == NestedSlice(res, <<"status", "conditions">>)
    IN  << <<"Deployment: ", GetName(res)>>,
           <<"Namespace: ", GetNamespace(res)>>,
           <<"Replicas: ", Itoa(replicas), " desired | ", Itoa(updated), " updated | ",
             Itoa(replicas), " total | ", Itoa(available), " available | ",
             Itoa(ready), " ready">>,
           <<"Strategy: ", strategy>> >>
        \o IfLines(selector.found /\ DOMAIN selector.val.v # {},
               <<Blank, <<"Selector:">> >> \o MapLinesV("  ", selector.val.v, ord))
        \o IfLines(Len(containers) > 0,
               <<Blank, <<"Containers:">> >>
               \o Flatten([i \in DOMAIN containers |-> ContainerLines(i, containers[i], ord)]))
        \o IfLines(Len(conditions) > 0,
               <<Blank, <<"Conditions:">> >>
               \o Flatten([i \in DOMAIN conditions |-> DeploymentConditionLines(conditions[i])]))
        \o <<Blank, <<"Created: ", CreationTime(res)>> >>

DeploymentListImageLine(containerObj) ==
    IF containerObj.t # "map" THEN <<>>
    ELSE << <<"      ", getNestedString(containerObj, <<"name">>), ": ",
              getNestedString(containerObj, <<"image">>)>> >>

DeploymentListConditionLine(condObj) ==
    IF condObj.t # "map" THEN <<>>
    ELSE << <<"      ", getNestedString(condObj, <<"type">>), ": ",
              getNestedString(condObj, <<"status">>)>> >>

DeploymentListItem(deployment) ==
    LET available == getNestedInt64(deployment, <<"status", "availableReplicas">>)
        replicas == getNestedInt64(deployment, <<"status", "replicas">>)
        updatedReplicas == getNestedInt64(deployment, <<"status", "updatedReplicas">>)
        containers == NestedSlice(deployment, <<"spec", "template", "spec", "containers">>)
        conditions == NestedSlice(deployment, <<"status", "conditions">>)
    IN  << <<"  * ", GetName(deployment)>>,
           <<"    Replicas: ", Itoa(available), " available / ", Itoa(replicas),
             " total / ", Itoa(updatedReplicas), " updated">> >>
        \o IfLines(Len(containers) > 0,
               << <<"    Images:">> >>
               \o Flatten([i \in DOMAIN containers |-> DeploymentListImageLine(containers[i])]))
        \o IfLines(Len(conditions) > 0,
               << <<"    Conditions:">> >>
               \o Flatten([i \in DOMAIN conditions |-> DeploymentListConditionLine(conditions[i])]))
        \o << <<"    Created: ", CreationTime(deployment)>>, Blank >>

DeploymentFormatter_FormatResourceList(list, ord) ==
    IF Len(list) = 0 THEN << <<"No deployments found in the specified namespace(s).">> >>
    ELSE << <<"Found ", Itoa(Len(list)), " deployment(s):">>, Blank >>
         \o LET keys == NamespacesOf(list)
            IN  GroupedLines([i \in DOMAIN list |-> DeploymentListItem(list[i])], keys,
                    [i \in DOMAIN list |-> <<"Namespace: ", keys[i], " (", Itoa(GroupSize(keys, i)), " deployments)">>],
                    ord)


(***************************************************************************)
(* VirtualMachineFormatter                                                 *)
(***************************************************************************)
\* The status with the two flags tested in the other order.
VMStatus_CreatedFirst(res) ==
    LET running == getNestedBool(res, <<"status", "ready">>)
        created == getNestedBool(res, <<"status", "created">>)
    IN  IF created THEN "Created" ELSE IF running THEN "Running" ELSE "Unknown"

VMStatus(res) ==
    LET running == getNestedBool(res, <<"status", "ready">>)
        created == getNestedBool(res, <<"status", "created">>)
    IN  IF running THEN "Running" ELSE IF created THEN "Created" ELSE "Unknown"

\* The volume block with containerDisk tested before persistentVolumeClaim.
VMVolumeLines_ContainerFirst(volumeObj) ==
    IF volumeObj.t # "map" THEN <<>>
    ELSE LET name == getNestedString(volumeObj, <<"name">>)
             pvc == NestedTyped(volumeObj, <<"persistentVolumeClaim">>, "map")
             container == NestedTyped(volumeObj, <<"containerDisk">>, "map")
             cloudInit == NestedTyped(volumeObj, <<"cloudInitNoCloud">>, "map")
         IN  << <<"  ", name, ":">> >>
             \o (IF container.found
                 THEN << <<"    Type: ContainerDisk">>,
                         <<"    Image: ",
                           getNestedString(volumeObj, <<"containerDisk", "image">>)>> >>
                 ELSE IF pvc.found
                 THEN << <<"    Type: PersistentVolumeClaim">>,
                         <<"    Claim Name: ",
                           getNestedString(volumeObj, <<"persistentVolumeClaim", "claimName">>)>> >>
                 ELSE IF cloudInit.found
                 THEN << <<"    Type: CloudInitNoCloud">> >>
                 ELSE << <<"    Type: Other">> >>)

VMVolumeLines(volumeObj) ==
    IF volumeObj.t # "map" THEN <<>>
    ELSE LET name == getNestedString(volumeObj, <<"name">>)
             pvc == NestedTyped(volumeObj, <<"persistentVolumeClaim">>, "map")
             container == NestedTyped(volumeObj, <<"containerDisk">>, "map")
             cloudInit == NestedTyped(volumeObj, <<"cloudInitNoCloud">>, "map")
         IN  << <<"  ", name, ":">> >>
             \o (IF pvc.found
                 THEN << <<"    Type: PersistentVolumeClaim">>,
                         <<"    Claim Name: ",
                           getNestedString(volumeObj, <<"persistentVolumeClaim", "claimName">>)>> >>
                 ELSE IF container.found
                 THEN << <<"    Type: ContainerDisk">>,
                         <<"    Image: ",
                           getNestedString(volumeObj, <<"containerDisk", "image">>)>> >>
                 ELSE IF cloudInit.found
                 THEN << <<"    Type: CloudInitNoCloud">> >>
                      \o IfLines(getNestedString(cloudInit.val, <<"userData">>) # "",
                             << <<"    Has User Data: true">> >>)
                      \o IfLines(getNestedString(cloudInit.val, <<"networkData">>) # "",
                             << <<"    Has Network Data: true">> >>)
                 ELSE << <<"    Type: Other">> >>)

VMNetworkLines(netObj) ==
    IF netObj.t # "map" THEN <<>>
    ELSE LET name == getNestedString(netObj, <<"name">>)
             podNet == getNestedString(netObj, <<"pod">>)
             multus == NestedTyped(netObj, <<"multus">>, "map")
         IN  << <<"  ", name, ":">> >>
             \o (IF podNet # ""
                 THEN << <<"    Type: Pod Network">> >>
                 ELSE IF multus.found
                 THEN << <<"    Type: Multus">>,
                         <<"    Network Name: ",
                           getNestedString(netObj, <<"multus", "networkName">>)>> >>
                 ELSE << <<"    Type: Other">> >>)

VirtualMachineFormatter_FormatResource(res, ord) ==
    LET running == getNestedBool(res, <<"status", "ready">>)
        created == getNestedBool(res, <<"status", "created">>)
        cpuCores == getNestedInt64(res, <<"spec", "template", "spec", "domain", "cpu", "cores">>)
        memory == getNestedString(res,
            <<"spec", "template", "spec", "domain", "resources", "requests", "memory">>)
        volumes == NestedSlice(res, <<"spec", "template", "spec", "volumes">>)
        networks == NestedSlice(res, <<"spec", "template", "spec", "networks">>)
    IN  << <<"Virtual Machine: ", GetName(res)>>,
           <<"Namespace: ", GetNamespace(res)>>,
           <<"Status: ", VMStatus(res)>>,
           <<"Ready: ", FmtBool(running)>>,
           <<"Created: ", FmtBool(created)>>,
           Blank, <<"Specification:">> >>
        \o IfLines(cpuCores > 0, << <<"  CPU Cores: ", Itoa(cpuCores)>> >>)
        \o IfLines(memory # "", << <<"  Memory: ", memory>> >>)
        \o IfLines(Len(volumes) > 0,
               <<Blank, <<"Volumes:">> >>
               \o Flatten([i \in DOMAIN volumes |-> VMVolumeLines(volumes[i])]))
        \o IfLines(Len(networks) > 0,
               <<Blank, <<"Networks:">> >>
               \o Flatten([i \in DOMAIN networks |-> VMNetworkLines(networks[i])]))
        \o <<Blank, <<"Created: ", CreationTime(res)>> >>

VMListVolumeLine(volumeObj) ==
    IF volumeObj.t # "map" THEN <<>>
    ELSE LET name == getNestedString(volumeObj, <<"name">>)
         IN  IF NestedTyped(volumeObj, <<"persistentVolumeClaim">>, "map").found
             THEN << <<"      ", name, ": PVC ",
                       getNestedString(volumeObj, <<"persistentVolumeClaim", "claimName">>)>> >>
             ELSE IF NestedTyped(volumeObj, <<"containerDisk">>, "map").found
             THEN << <<"      ", name, ": ContainerDisk ",
                       getNestedString(volumeObj, <<"containerDisk", "image">>)>> >>
             ELSE IF NestedTyped(volumeObj, <<"cloudInitNoCloud">>, "map").found
             THEN << <<"      ", name, ": CloudInit">> >>
             ELSE << <<"      ", name>> >>

VMListNetworkLine(netObj) ==
    IF netObj.t # "map" THEN <<>>
    ELSE LET name == getNestedString(netObj, <<"name">>)
         IN  IF getNestedString(netObj, <<"pod">>) # ""
             THEN << <<"      ", name, ": Pod Network">> >>
             ELSE IF NestedTyped(netObj, <<"multus">>, "map").found
             THEN << <<"      ", name, ": Multus ",
                       getNestedString(netObj, <<"multus", "networkName">>)>> >>
             ELSE << <<"      ", name>> >>

VMListItem(vm) ==
    LET cpuCores == getNestedInt64(vm, <<"spec", "template", "spec", "domain", "cpu", "cores">>)
        memory == getNestedString(vm,
            <<"spec", "template", "spec", "domain", "resources", "requests", "memory">>)
        volumes == NestedSlice(vm, <<"spec", "template", "spec", "volumes">>)
        networks == NestedSlice(vm, <<"spec", "template", "spec", "networks">>)
    IN  << <<"  * ", GetName(vm)>>,
           <<"    Status: ", VMStatus(vm)>> >>
        \o IfLines(cpuCores > 0, << <<"    CPU Cores: ", Itoa(cpuCores)>> >>)
        \o IfLines(memory # "", << <<"    Memory: ", memory>> >>)
        \o IfLines(Len(volumes) > 0,
               << <<"    Volumes:">> >>
               \o Flatten([i \in DOMAIN volumes |-> VMListVolumeLine(volumes[i])]))
        \o IfLines(Len(networks) > 0,
               << <<"    Networks:">> >>
               \o Flatten([i \in DOMAIN networks |-> VMListNetworkLine(networks[i])]))
        \o << <<"    Created: ", CreationTime(vm)>>, Blank >>

VirtualMachineFormatter_FormatResourceList(list, ord) ==
    IF Len(list) = 0
    THEN << <<"No virtual machines found in the specified namespace(s).">> >>
    ELSE << <<"Found ", Itoa(Len(list)), " virtual machine(s):">>, Blank >>
         \o LET keys == NamespacesOf(list)
            IN  GroupedLines([i \in DOMAIN list |-> VMListItem(list[i])], keys,
                    [i \in DOMAIN list |-> <<"Namespace: ", keys[i], " (", Itoa(GroupSize(keys, i)), " VMs)">>],
                    ord)

(***************************************************************************)
(* VolumeFormatter                                                         *)
(***************************************************************************)
VolumeFormatter_FormatResource(res, ord) ==
    LET size == getNestedString(res, <<"spec", "size">>)
        status == getNestedString(res, <<"status", "state">>)
        storageClass == getNestedString(res, <<"spec", "storageClassName">>)
        accessModes == NestedStringSlice(res, <<"spec", "accessModes">>)
    IN  << <<"Volume: ", GetName(res)>>,
           <<"Namespace: ", GetNamespace(res)>> >>
        \o IfLines(status # "", << <<"Status: ", status>> >>)
        \o IfLines(size # "", << <<"Size: ", size>> >>)
        \o IfLines(storageClass # "", << <<"Storage Class: ", storageClass>> >>)
        \o IfLines(Len(accessModes) > 0,
               <<Blank, <<"Access Modes:">> >>
               \o [i \in DOMAIN accessModes |-> <<"  ", accessModes[i]>>])
        \o <<Blank, <<"Created: ", CreationTime(res)>> >>

VolumeListItem(volume) ==
    LET size == getNestedString(volume, <<"spec", "size">>)
        status == getNestedString(volume, <<"status", "state">>)
    IN  << <<"  * ", GetName(volume)>> >>
        \o IfLines(status # "", << <<"    Status: ", status>> >>)
        \o IfLines(size # "", << <<"    Size: ", size>> >>)
        \o << <<"    Created: ", CreationTime(volume)>>, Blank >>

VolumeFormatter_FormatResourceList(list, ord) ==
    IF Len(list) = 0 THEN << <<"No volumes found in the specified namespace(s).">> >>
    ELSE << <<"Found ", Itoa(Len(list)), " volume(s):">>, Blank >>
         \o LET keys == NamespacesOf(list)
            IN  GroupedLines([i \in DOMAIN list |-> VolumeListItem(list[i])], keys,
                    [i \in DOMAIN list |-> <<"Namespace: ", keys[i], " (", Itoa(GroupSize(keys, i)), " volumes)">>],
                    ord)

(***************************************************************************)
(* NetworkFormatter                                                        *)
(***************************************************************************)
NetworkFormatter_FormatResource(res, ord) ==
    LET networkType == getNestedString(res, <<"spec", "type">>)
        config == NestedTyped(res, <<"spec", "config">>, "map")
    IN  << <<"Network: ", GetName(res)>>,
           <<"Namespace: ", GetNamespace(res)>> >>
        \o IfLines(networkType # "", << <<"Type: ", networkType>> >>)
        \o IfLines(config.found /\ DOMAIN config.val.v # {},
               <<Blank, <<"Configuration:">> >> \o MapLinesV("  ", config.val.v, ord))
        \o <<Blank, <<"Created: ", CreationTime(res)>> >>

NetworkListItem(network) ==
    LET networkType == getNestedString(network, <<"spec", "type">>)
        vlanId == getNestedInt64(network, <<"spec", "config", "vlan">>)
    IN  << <<"  * ", GetName(network)>> >>
        \o IfLines(networkType # "", << <<"    Type: ", networkType>> >>)
        \o IfLines(vlanId > 0, << <<"    VLAN ID: ", Itoa(vlanId)>> >>)
        \o << <<"    Created: ", CreationTime(network)>>, Blank >>

NetworkFormatter_FormatResourceList(list, ord) ==
    IF Len(list) = 0 THEN << <<"No networks found in the specified namespace(s).">> >>
    ELSE << <<"Found ", Itoa(Len(list)), " network(s):">>, Blank >>
         \o LET keys == NamespacesOf(list)
            IN  GroupedLines([i \in DOMAIN list |-> NetworkListItem(list[i])], keys,
                    [i \in DOMAIN list |-> <<"Namespace: ", keys[i], " (", Itoa(GroupSize(keys, i)), " networks)">>],
                    ord)

(***************************************************************************)
(* VMImageFormatter                                                        *)
(***************************************************************************)
VMImageFormatter_FormatResource(res, ord) ==
    LET displayName == getNestedString(res, <<"spec", "displayName">>)
        url == getNestedString(res, <<"spec", "url">>)
        description == getNestedString(res, <<"spec", "description">>)
        status == NestedTyped(res, <<"status">>, "map")
        state == getNestedString(res, <<"status", "state">>)
        progress == getNestedString(res, <<"status", "progress">>)
        size == getNestedString(res, <<"status", "size">>)
    IN  << <<"VM Image: ", GetName(res)>>,
           <<"Namespace: ", GetNamespace(res)>> >>
        \o IfLines(displayName # "", << <<"Display Name: ", displayName>> >>)
        \o IfLines(url # "", << <<"URL: ", url>> >>)
        \o IfLines(description # "", << <<"Description: ", description>> >>)
        \o IfLines(status.found /\ DOMAIN status.val.v # {},
               <<Blank, <<"Status:">> >>
               \o IfLines(state # "", << <<"  State: ", state>> >>)
               \o IfLines(progress # "", << <<"  Progress: ", progress>> >>)
               \o IfLines(size # "", << <<"  Size: ", size>> >>))
        \o <<Blank, <<"Created: ", CreationTime(res)>> >>

VMImageListItem(image) ==
    LET displayName == getNestedString(image, <<"spec", "displayName">>)
        url == IF displayName = "" THEN getNestedString(image, <<"spec", "url">>)
               ELSE displayName
        size == getNestedString(image, <<"status", "size">>)
        progress == getNestedString(image, <<"status", "progress">>)
    IN  << <<"  * ", GetName(image)>> >>
        \o IfLines(url # "", << <<"    Source: ", url>> >>)
        \o IfLines(size # "", << <<"    Size: ", size>> >>)
        \o IfLines(progress # "", << <<"    Progress: ", progress>> >>)
        \o << <<"    Created: ", CreationTime(image)>>, Blank >>

VMImageFormatter_FormatResourceList(list, ord) ==
    IF Len(list) = 0 THEN << <<"No VM images found in the specified namespace(s).">> >>
    ELSE << <<"Found ", Itoa(Len(list)), " VM image(s):">>, Blank >>
         \o LET keys == NamespacesOf(list)
            IN  GroupedLines([i \in DOMAIN list |-> VMImageListItem(list[i])], keys,
                    [i \in DOMAIN list |-> <<"Namespace: ", keys[i], " (", Itoa(GroupSize(keys, i)), " images)">>],
                    ord)

(***************************************************************************)
(* CRDFormatter                                                            *)
(***************************************************************************)
\* "a, b, c" as the pieces of one line
RECURSIVE JoinComma(_)
JoinComma(names) ==
    IF Len(names) = 0 THEN <<>>
    ELSE IF Len(names) = 1 THEN <<names[1]>>
    ELSE <<names[1], ", ">> \o JoinComma(Tail(names))

CRDVersionLines(versionObj) ==
    IF versionObj.t # "map" THEN <<>>
    ELSE LET name == getNestedString(versionObj, <<"name">>)
             served == getNestedBool(versionObj, <<"served">>)
             storage == getNestedBool(versionObj, <<"storage">>)
             schema == NestedTyped(versionObj, <<"schema", "openAPIV3Schema">>, "map")
         IN  << <<"  ", name, ":">>,
                <<"    Served: ", FmtBool(served)>>,
                <<"    Storage: ", FmtBool(storage)>> >>
             \o IfLines(schema.found /\ DOMAIN schema.val.v # {},
                    << <<"    Schema: Available">> >>)

CRDFormatter_FormatResource(res, ord) ==
    LET group == getNestedString(res, <<"spec", "group">>)
        kind == getNestedString(res, <<"spec", "names", "kind">>)
        plural == getNestedString(res, <<"spec", "names", "plural">>)
        scope == getNestedString(res, <<"spec", "scope">>)
        shortNames == NestedStringSlice(res, <<"spec", "names", "shortNames">>)
        versions == NestedSlice(res, <<"spec", "versions">>)
    IN  << <<"Custom Resource Definition: ", GetName(res)>>,
           <<"Group: ", group>>,
           <<"Kind: ", kind>>,
           <<"Plural: ", plural>>,
           <<"Scope: ", scope>> >>
        \o IfLines(Len(shortNames) > 0, << <<"Short Names: ">> \o JoinComma(shortNames) >>)
        \o IfLines(Len(versions) > 0,
               <<Blank, <<"Versions:">> >>
               \o Flatten([i \in DOMAIN versions |-> CRDVersionLines(versions[i])]))
        \o <<Blank, <<"Created: ", CreationTime(res)>> >>

CRDGroup(item) ==
    LET group == getNestedString(item, <<"spec", "group">>)
    IN  IF group = "" THEN "core" ELSE group

CRDListVersionLine(versionObj) ==
    IF versionObj.t # "map" THEN <<>>
    ELSE << <<"      ", getNestedString(versionObj, <<"name">>),
              " (served: ", FmtBool(getNestedBool(versionObj, <<"served">>)),
              ", storage: ", FmtBool(getNestedBool(versionObj, <<"storage">>)), ")">> >>

CRDListItem(crd) ==
    LET kind == getNestedString(crd, <<"spec", "names", "kind">>)
        plural == getNestedString(crd, <<"spec", "names", "plural">>)
        versions == NestedSlice(crd, <<"spec", "versions">>)
    IN  << <<"  * ", GetName(crd)>>,
           <<"    Kind: ", kind>>,
           <<"    Plural: ", plural>> >>
        \o IfLines(Len(versions) > 0,
               << <<"    Versions:">> >>
               \o Flatten([i \in DOMAIN versions |-> CRDListVersionLine(versions[i])]))
        \o << <<"    Created: ", CreationTime(crd)>>, Blank >>

CRDFormatter_FormatResourceList(list, ord) ==
    IF Len(list) = 0 THEN << <<"No custom resource definitions found.">> >>
    ELSE << <<"Found ", Itoa(Len(list)), " custom resource definition(s):">>, Blank >>
         \o LET keys == [i \in DOMAIN list |-> CRDGroup(list[i])]
            IN  GroupedLines([i \in DOMAIN list |-> CRDListItem(list[i])], keys,
                    [i \in DOMAIN list |-> <<"Group: ", keys[i], " (", Itoa(GroupSize(keys, i)), " CRDs)">>],
                    ord)


(***************************************************************************)
(* Resource type table (types.go)                                          *)
(***************************************************************************)
GVR(group, version, resource) == [Group |-> group, Version |-> version, Resource |-> resource]

\* A table in which every friendly name resolves to the pods identifier.
ResourceTypeToGVR_AllPods ==
    [t \in {"pod", "pods", "service", "services", "namespace", "namespaces", "node", "nodes",
             "deployment", "deployments", "crd", "crds", "vm", "vms", "volume", "volumes",
             "network", "networks", "image", "images"} |-> GVR("", "v1", "pods")]

ResourceTypeToGVR ==
    [ pod         |-> GVR("", "v1", "pods"),
      pods        |-> GVR("", "v1", "pods"),
      service     |-> GVR("", "v1", "services"),
      services    |-> GVR("", "v1", "services"),
      namespace   |-> GVR("", "v1", "namespaces"),
      namespaces  |-> GVR("", "v1", "namespaces"),
      node        |-> GVR("", "v1", "nodes"),
      nodes       |-> GVR("", "v1", "nodes"),
      deployment  |-> GVR("apps", "v1", "deployments"),
      deployments |-> GVR("apps", "v1", "deployments"),
      crd         |-> GVR("apiextensions.k8s.io", "v1", "customresourcedefinitions"),
      crds        |-> GVR("apiextensions.k8s.io", "v1", "customresourcedefinitions"),
      vm          |-> GVR("kubevirt.io", "v1", "virtualmachines"),
      vms         |-> GVR("kubevirt.io", "v1", "virtualmachines"),
      volume      |-> GVR("storage.harvesterhci.io", "v1beta1", "volumes"),
      volumes     |-> GVR("storage.harvesterhci.io", "v1beta1", "volumes"),
      network     |-> GVR("network.harvesterhci.io", "v1beta1", "networks"),
      networks    |-> GVR("network.harvesterhci.io", "v1beta1", "networks"),
      image       |-> GVR("harvesterhci.io", "v1beta1", "virtualmachineimages"),
      images      |-> GVR("harvesterhci.io", "v1beta1", "virtualmachineimages") ]

\* The reverse table, as the set of its (identifier, friendly name) entries.
GVRToResourceType ==
    { <<GVR("", "v1", "pods"), "pod">>,
      <<GVR("", "v1", "services"), "service">>,
      <<GVR("", "v1", "namespaces"), "namespace">>,
      <<GVR("", "v1", "nodes"), "node">>,
      <<GVR("apps", "v1", "deployments"), "deployment">>,
      <<GVR("apiextensions.k8s.io", "v1", "customresourcedefinitions"), "crd">>,
      <<GVR("kubevirt.io", "v1", "virtualmachines"), "vm">>,
      <<GVR("storage.harvesterhci.io", "v1beta1", "volumes"), "volume">>,
      <<GVR("network.harvesterhci.io", "v1beta1", "networks"), "network">>,
      <<GVR("harvesterhci.io", "v1beta1", "virtualmachineimages"), "image">> }

(***************************************************************************)
(* Formatter registry (formatters.go)                                      *)
(***************************************************************************)
\* r.formatters[kind] = formatter
Register(formatters, kind, formatter) ==
    [k \in DOMAIN formatters \cup {kind} |-> IF k = kind THEN formatter ELSE formatters[k]]

\* A registry that was never given the pod formatter.
NewFormatterRegistry_NoPod ==
    LET r0 == [k \in {} |-> ""]
        r1 == Register(r0, "Service", "ServiceFormatter")
        r2 == Register(r1, "Namespace", "NamespaceFormatter")
        r3 == Register(r2, "Node", "NodeFormatter")
        r4 == Register(r3, "Deployment", "DeploymentFormatter")
        r5 == Register(r4, "VirtualMachine", "VirtualMachineFormatter")
        r6 == Register(r5, "Volume", "VolumeFormatter")
        r7 == Register(r6, "Network", "NetworkFormatter")
        r8 == Register(r7, "VirtualMachineImage", "VMImageFormatter")
    IN  Register(r8, "CustomResourceDefinition", "CRDFormatter")

NewFormatterRegistry ==
    LET r0 == [k \in {} |-> ""]
        r1 == Register(r0, "Pod", "PodFormatter")
        r2 == Register(r1, "Service", "ServiceFormatter")
        r3 == Register(r2, "Namespace", "NamespaceFormatter")
        r4 == Register(r3, "Node", "NodeFormatter")
        r5 == Register(r4, "Deployment", "DeploymentFormatter")
        r6 == Register(r5, "VirtualMachine", "VirtualMachineFormatter")
        r7 == Register(r6, "Volume", "VolumeFormatter")
        r8 == Register(r7, "Network", "NetworkFormatter")
        r9 == Register(r8, "VirtualMachineImage", "VMImageFormatter")
    IN  Register(r9, "CustomResourceDefinition", "CRDFormatter")

GetFormatter(formatters, kind) ==
    IF kind \in DOMAIN formatters
    THEN [exists |-> TRUE, formatter |-> formatters[kind]]
    ELSE [exists |-> FALSE, formatter |-> "nil"]

\* formatter.FormatResource(res): the method of the formatter's type
CallFormatResource(formatter, res, ord) ==
    CASE formatter = "PodFormatter" -> PodFormatter_FormatResource(res, ord)
      [] formatter = "ServiceFormatter" -> ServiceFormatter_FormatResource(res, ord)
      [] formatter = "NamespaceFormatter" -> NamespaceFormatter_FormatResource(res, ord)
      [] formatter = "NodeFormatter" -> NodeFormatter_FormatResource(res, ord)
      [] formatter = "DeploymentFormatter" -> DeploymentFormatter_FormatResource(res, ord)
      [] formatter = "VirtualMachineFormatter" -> VirtualMachineFormatter_FormatResource(res, ord)
      [] formatter = "VolumeFormatter" -> VolumeFormatter_FormatResource(res, ord)
      [] formatter = "NetworkFormatter" -> NetworkFormatter_FormatResource(res, ord)
      [] formatter = "VMImageFormatter" -> VMImageFormatter_FormatResource(res, ord)
      [] formatter = "CRDFormatter" -> CRDFormatter_FormatResource(res, ord)

\* formatter.FormatResourceList(list)
CallFormatResourceList(formatter, list, ord) ==
    CASE formatter = "PodFormatter" -> PodFormatter_FormatResourceList(list, ord)
      [] formatter = "ServiceFormatter" -> ServiceFormatter_FormatResourceList(list, ord)
      [] formatter = "NamespaceFormatter" -> NamespaceFormatter_FormatResourceList(list, ord)
      [] formatter = "NodeFormatter" -> NodeFormatter_FormatResourceList(list, ord)
      [] formatter = "DeploymentFormatter" -> DeploymentFormatter_FormatResourceList(list, ord)
      [] formatter = "VirtualMachineFormatter" -> VirtualMachineFormatter_FormatResourceList(list, ord)
      [] formatter = "VolumeFormatter" -> VolumeFormatter_FormatResourceList(list, ord)
      [] formatter = "NetworkFormatter" -> NetworkFormatter_FormatResourceList(list, ord)
      [] formatter = "VMImageFormatter" -> VMImageFormatter_FormatResourceList(list, ord)
      [] formatter = "CRDFormatter" -> CRDFormatter_FormatResourceList(list, ord)

genericResourceFormatter(res, ord) ==
    LET ns == GetNamespace(res)
        labels == GetLabels(res)
    IN  << <<"Kind: ", GetKind(res)>>,
           <<"Name: ", GetName(res)>> >>
        \o IfLines(ns # "", << <<"Namespace: ", ns>> >>)
        \o << <<"Created: ", CreationTime(res)>> >>
        \o IfLines(DOMAIN labels # {},
               <<Blank, <<"Labels:">> >> \o MapLines("  ", labels, ord))

\* An item of the fallback list without its creation time.
genericListItem_NameOnly(resource) ==
    << <<"  * ", GetName(resource)>>, Blank >>

genericListItem(resource) ==
    << <<"  * ", GetName(resource)>>,
       <<"    Created: ", CreationTime(resource)>>,
       Blank >>

genericResourceListFormatter(list, ord) ==
    IF Len(list) = 0 THEN << <<"No resources found in the specified namespace(s).">> >>
    ELSE LET kind == <<GetKind(list[1]), "s">>
             header(namespace, n) ==
                 IF namespace = ""
                 THEN <<"Cluster-scoped (", Itoa(n), " ">> \o kind \o <<")">>
                 ELSE <<"Namespace: ", namespace, " (", Itoa(n), " ">> \o kind \o <<")">>
         IN  << <<"Found ", Itoa(Len(list)), " ">> \o kind \o <<":">>, Blank >>
             \o LET keys == NamespacesOf(list)
                IN  GroupedLines([i \in DOMAIN list |-> genericListItem(list[i])], keys,
                        [i \in DOMAIN list |-> header(keys[i], GroupSize(keys, i))],
                        ord)

FormatterRegistry_FormatResource(formatters, res, ord) ==
    LET f == GetFormatter(formatters, GetKind(res))
    IN  IF f.exists THEN CallFormatResource(f.formatter, res, ord)
        ELSE genericResourceFormatter(res, ord)

\* FormatResourceList without the check of len(list.Items): an empty
\* collection goes to the pod formatter.
FormatterRegistry_FormatResourceList_NoShortCut(formatters, list, ord) ==
    LET f == GetFormatter(formatters, IF Len(list) = 0 THEN "Pod" ELSE GetKind(list[1]))
    IN  IF f.exists THEN CallFormatResourceList(f.formatter, list, ord)
        ELSE genericResourceListFormatter(list, ord)

\* FormatResourceList choosing the formatter from the last item.
FormatterRegistry_FormatResourceList_ByLast(formatters, list, ord) ==
    IF Len(list) = 0 THEN << <<"No resources found in the specified namespace(s).">> >>
    ELSE LET f == GetFormatter(formatters, GetKind(list[Len(list)]))
         IN  IF f.exists THEN CallFormatResourceList(f.formatter, list, ord)
             ELSE genericResourceListFormatter(list, ord)

FormatterRegistry_FormatResourceList(formatters, list, ord) ==
    IF Len(list) = 0 THEN << <<"No resources found in the specified namespace(s).">> >>
    ELSE LET f == GetFormatter(formatters, GetKind(list[1]))
         IN  IF f.exists THEN CallFormatResourceList(f.formatter, list, ord)
             ELSE genericResourceListFormatter(list, ord)


(***************************************************************************)
(* The per-kind entry points (formatters.go) and the resource handler's    *)
(* formatting switch (resources.go)                                        *)
(***************************************************************************)
\* What a formatting call comes to: a text, or a panic of the process.
Rendered(text) == [panic |-> FALSE, text |-> text]

\* A method call on a nil ResourceFormatter: GetFormatter's second result
\* is dropped by the entry points, so an unregistered kind panics there.
NilDereference == [panic |-> TRUE, text |-> <<>>]

\* The entry points FormatPod, FormatService, ... FormatCRD, one per kind
\* and alike but for the kind they look up:
\*   formatter, _ := defaultRegistry.GetFormatter(kind)
\*   return formatter.FormatResource(res)
FormatEntry(formatters, kind, res, ord) ==
    LET f == GetFormatter(formatters, kind)
    IN  IF f.exists THEN Rendered(CallFormatResource(f.formatter, res, ord)) ELSE NilDereference

\* The entry points FormatPodList, FormatServiceList, ... FormatCRDList.
FormatListEntry(formatters, kind, list, ord) ==
    LET f == GetFormatter(formatters, kind)
    IN  IF f.exists THEN Rendered(CallFormatResourceList(f.formatter, list, ord)) ELSE NilDereference

\* strings.Title on the resource names of the model
Title(s) ==
    CASE s = "pods" -> "Pods"
      [] s = "services" -> "Services"
      [] s = "widgets" -> "Widgets"
      [] OTHER -> s

genericStatusLines(item, ord) ==
    LET status == NestedTyped(item, <<"status">>, "map")
    IN  IfLines(status.found,
            << <<"    Status:">> >> \o MapLinesV("      ", status.val.v, ord))

formatGenericResourceList(list, gvr, ord) ==
    IF Len(list) = 0 THEN << <<"No ", gvr.Resource, " found in the specified namespace(s).">> >>
    ELSE LET keyOf(item) == IF GetNamespace(item) = "" THEN "cluster-scoped" ELSE GetNamespace(item)
             header(namespace, n) ==
                 IF namespace = "cluster-scoped"
                 THEN <<"Cluster-scoped resources (", Itoa(n), " items)">>
                 ELSE <<"Namespace: ", namespace, " (", Itoa(n), " items)">>
             itemLines(item) ==
                 << <<"  * ", GetName(item)>>,
                    <<"    Created: ", CreationTime(item)>> >>
                 \o genericStatusLines(item, ord)
                 \o <<Blank>>
         IN  << <<"Found ", Itoa(Len(list)), " ", gvr.Resource, ":">>, Blank >>
             \o LET keys == [i \in DOMAIN list |-> keyOf(list[i])]
                IN  GroupedLines([i \in DOMAIN list |-> itemLines(list[i])], keys,
                        [i \in DOMAIN list |-> header(keys[i], GroupSize(keys, i))],
                        ord)

formatGenericResource(resource, gvr, ord) ==
    LET namespace == GetNamespace(resource)
        labels == GetLabels(resource)
        annotations == GetAnnotations(resource)
        spec == NestedTyped(resource, <<"spec">>, "map")
        status == NestedTyped(resource, <<"status">>, "map")
    IN  << <<Title(gvr.Resource), ": ", GetName(resource)>>,
           IF namespace # "" THEN <<"Namespace: ", namespace>> ELSE <<"Scope: Cluster-wide">>,
           <<"Created: ", CreationTime(resource)>> >>
        \o IfLines(DOMAIN labels # {}, <<Blank, <<"Labels:">> >> \o MapLines("  ", labels, ord))
        \o IfLines(DOMAIN annotations # {}, <<Blank, <<"Annotations:">> >> \o MapLines("  ", annotations, ord))
        \o IfLines(spec.found, <<Blank, <<"Spec:">> >> \o MapLinesV("  ", spec.val.v, ord))
        \o IfLines(status.found, <<Blank, <<"Status:">> >> \o MapLinesV("  ", status.val.v, ord))

\* A switch with the cases of pods and services exchanged.
EntryOfGVR_Exchanged(gvr) ==
    CASE gvr.Resource = "pods" /\ gvr.Group = "" -> "Service"
      [] gvr.Resource = "services" /\ gvr.Group = "" -> "Pod"
      [] OTHER -> ""

\* A switch whose case of volumes asks for the group of the images.
EntryOfGVR_VolumeGroup(gvr) ==
    CASE gvr.Resource = "pods" /\ gvr.Group = "" -> "Pod"
      [] gvr.Resource = "services" /\ gvr.Group = "" -> "Service"
      [] gvr.Resource = "namespaces" /\ gvr.Group = "" -> "Namespace"
      [] gvr.Resource = "nodes" /\ gvr.Group = "" -> "Node"
      [] gvr.Resource = "deployments" /\ gvr.Group = "apps" -> "Deployment"
      [] gvr.Resource = "virtualmachines" /\ gvr.Group = "kubevirt.io" -> "VirtualMachine"
      [] gvr.Resource = "networks" /\ gvr.Group = "network.harvesterhci.io" -> "Network"
      [] gvr.Resource = "volumes" /\ gvr.Group = "harvesterhci.io" -> "Volume"
      [] gvr.Resource = "virtualmachineimages" /\ gvr.Group = "harvesterhci.io" -> "VirtualMachineImage"
      [] gvr.Resource = "customresourcedefinitions" /\ gvr.Group = "apiextensions.k8s.io" ->
             "CustomResourceDefinition"
      [] OTHER -> ""

\* The switch on the requested resource type that both formatting methods
\* of the resource handler make: the kind of the entry point the matching
\* case calls (formatPod is FormatPod, ...), "" in the default case.
EntryOfGVR(gvr) ==
    CASE gvr.Resource = "pods" /\ gvr.Group = "" -> "Pod"
      [] gvr.Resource = "services" /\ gvr.Group = "" -> "Service"
      [] gvr.Resource = "namespaces" /\ gvr.Group = "" -> "Namespace"
      [] gvr.Resource = "nodes" /\ gvr.Group = "" -> "Node"
      [] gvr.Resource = "deployments" /\ gvr.Group = "apps" -> "Deployment"
      [] gvr.Resource = "virtualmachines" /\ gvr.Group = "kubevirt.io" -> "VirtualMachine"
      [] gvr.Resource = "networks" /\ gvr.Group = "network.harvesterhci.io" -> "Network"
      [] gvr.Resource = "volumes" /\ gvr.Group = "storage.harvesterhci.io" -> "Volume"
      [] gvr.Resource = "virtualmachineimages" /\ gvr.Group = "harvesterhci.io" -> "VirtualMachineImage"
      [] gvr.Resource = "customresourcedefinitions" /\ gvr.Group = "apiextensions.k8s.io" ->
             "CustomResourceDefinition"
      [] OTHER -> ""

ResourceHandler_FormatResourceList(formatters, list, gvr, ord) ==
    IF EntryOfGVR(gvr) # ""
    THEN FormatListEntry(formatters, EntryOfGVR(gvr), list, ord)
    ELSE Rendered(formatGenericResourceList(list, gvr, ord))

ResourceHandler_FormatResource(formatters, resource, gvr, ord) ==
    IF EntryOfGVR(gvr) # ""
    THEN FormatEntry(formatters, EntryOfGVR(gvr), resource, ord)
    ELSE Rendered(formatGenericResource(resource, gvr, ord))

(***************************************************************************)
(* The platform: the objects it stores and the documents it returns        *)
(***************************************************************************)
Object(resource, namespace, name) == [resource |-> resource, namespace |-> namespace, name |-> name]

\* The stored objects, in the order a list call returns them.
StoredOrder ==
    << Object("pods", "default", "web-1"),
       Object("pods", "kube-system", "dns-0"),
       Object("services", "default", "web-1"),
       Object("deployments", "default", "web-1"),
       Object("namespaces", "", "default"),
       Object("namespaces", "", "web-1"),
       Object("nodes", "", "web-1"),
       Object("virtualmachines", "default", "web-1"),
       Object("virtualmachines", "kube-system", "vm-2"),
       Object("volumes", "default", "web-1"),
       Object("virtualmachineimages", "default", "web-1"),
       Object("customresourcedefinitions", "", "widgets.example.io") >>

InitialStore == {StoredOrder[i] : i \in DOMAIN StoredOrder}

\* The resource-type identifiers the platform serves.
ServedGVRs ==
    { GVR("", "v1", "pods"), GVR("", "v1", "services"), GVR("", "v1", "namespaces"),
      GVR("", "v1", "nodes"), GVR("apps", "v1", "deployments"),
      GVR("apiextensions.k8s.io", "v1", "customresourcedefinitions"),
      GVR("kubevirt.io", "v1", "virtualmachines"),
      GVR("storage.harvesterhci.io", "v1beta1", "volumes"),
      GVR("network.harvesterhci.io", "v1beta1", "networks"),
      GVR("harvesterhci.io", "v1beta1", "virtualmachineimages") }

\* The kind the platform registers for a resource name.
KindOfResource(resource) ==
    CASE resource = "pods" -> "Pod"
      [] resource = "services" -> "Service"
      [] resource = "namespaces" -> "Namespace"
      [] resource = "nodes" -> "Node"
      [] resource = "deployments" -> "Deployment"
      [] resource = "virtualmachines" -> "VirtualMachine"
      [] resource = "volumes" -> "Volume"
      [] resource = "networks" -> "Network"
      [] resource = "virtualmachineimages" -> "VirtualMachineImage"
      [] resource = "customresourcedefinitions" -> "CustomResourceDefinition"
      [] OTHER -> "Widget"

\* The kinds a returned document may declare: documents are free-form, so
\* besides the kind of the requested type a document may declare another
\* registered kind or a kind nothing is registered for.
AnswerKinds(resource) ==
    {KindOfResource(resource), "Widget", IF resource = "pods" THEN "Service" ELSE "Pod"}

ContainersOf(o) ==
    VList(<< VMap([name |-> VStr("app"), image |-> VStr("nginx:1.25")]) >>)

SpecOf(o) ==
    CASE o.resource = "pods" ->
             [nodeName |-> VStr("node-1"), containers |-> ContainersOf(o)]
      [] o.resource = "services" ->
             [type |-> VStr("ClusterIP"), clusterIP |-> VStr("10.53.0.1"),
              ports |-> VList(<< VMap([port |-> VInt(80), targetPort |-> VInt(8080),
                                      protocol |-> VStr("TCP")]) >>)]
      [] o.resource = "deployments" /\ o.name = "bare-1" ->
             [template |-> VMap([spec |-> VMap([containers |-> ContainersOf(o)])])]
      [] o.resource = "deployments" /\ o.name # "bare-1" ->
             [replicas |-> VInt(3),
              template |-> VMap([spec |-> VMap([containers |-> ContainersOf(o)])])]
      [] o.resource = "virtualmachines" /\ o.name = "vm-3" ->
             [template |-> VMap([spec |-> VMap(
                 [volumes |-> VList(<<
                      VMap([name |-> VStr("root"),
                            persistentVolumeClaim |-> VMap([claimName |-> VStr("disk-0")])]),
                      VMap([name |-> VStr("boot"),
                            persistentVolumeClaim |-> VMap([claimName |-> VStr("disk-1")]),
                            containerDisk |-> VMap([image |-> VStr("img:1")])]),
                      VMap([name |-> VStr("cd"), containerDisk |-> VMap([image |-> VStr("img:2")])]),
                      VMap([name |-> VStr("init"), cloudInitNoCloud |-> VMap([userData |-> VStr("#cloud-config")])]),
                      VMap([name |-> VStr("scratch"), emptyDisk |-> VMap([capacity |-> VStr("1Gi")])]) >>)])])]
      [] o.resource = "virtualmachines" /\ o.name = "vm-4" ->
             [template |-> VMap([spec |-> VMap([volumes |-> VList(<<>>)])])]
      [] o.resource = "virtualmachines" /\ o.name \notin {"vm-3", "vm-4"} ->
             [template |-> VMap([spec |-> VMap(
                 [domain |-> VMap([cpu |-> VMap([cores |-> VInt(2)])]),
                  volumes |-> VList(<< VMap([name |-> VStr("disk-0"),
                      persistentVolumeClaim |-> VMap([claimName |-> VStr("web-1-disk-0")])]) >>)])])]
      [] o.resource = "volumes" ->
             [size |-> VStr("10Gi"), storageClassName |-> VStr("longhorn")]
      [] o.resource = "virtualmachineimages" ->
             [displayName |-> VStr("ubuntu-22.04"), url |-> VStr("https://images.example/ubuntu.img")]
      [] o.resource = "customresourcedefinitions" ->
             [group |-> VStr(IF o.name = "widgets.example.io" THEN "example.io" ELSE "other.io"),
              scope |-> VStr("Namespaced"),
              names |-> VMap([kind |-> VStr("Widget"), plural |-> VStr("widgets")]),
              versions |-> VList(<< VMap([name |-> VStr("v1"), served |-> VBool(TRUE),
                                         storage |-> VBool(TRUE)]) >>)]
      [] OTHER -> EmptyMap

StatusOf(o) ==
    CASE o.resource = "pods" /\ o.name = "web-1" ->
             [phase |-> VStr("Running"), podIP |-> VStr("10.52.0.5"),
              containerStatuses |-> VList(<< VMap([ready |-> VBool(TRUE), restartCount |-> VInt(2)]) >>)]
      [] o.resource = "pods" /\ o.name = "dns-0" -> [phase |-> VStr("Pending")]
      [] o.resource = "pods" /\ o.name = "evicted-1" ->
             [phase |-> VStr("Failed"), reason |-> VStr("Evicted")]
      [] o.resource = "pods" /\ o.name = "quiet-1" ->
             [phase |-> VStr("Running"), reason |-> VStr("")]
      [] o.resource = "deployments" /\ o.name # "bare-1" ->
             [replicas |-> VInt(2), readyReplicas |-> VInt(1), availableReplicas |-> VInt(1),
              updatedReplicas |-> VInt(2)]
      [] o.resource = "namespaces" /\ o.name \in {"default", "web-1"} -> [phase |-> VStr("Active")]
      [] o.resource = "namespaces" /\ o.name = "old-ns" -> [phase |-> VStr("Terminating")]
      [] o.resource = "nodes" /\ o.name = "web-1" ->
             [conditions |-> VList(<< VMap([type |-> VStr("Ready"), status |-> VStr("False")]) >>),
              addresses |-> VList(<< VMap([type |-> VStr("InternalIP"), address |-> VStr("10.0.0.1")]) >>)]
      [] o.resource = "nodes" /\ o.name = "node-up" ->
             [conditions |-> VList(<< VMap([type |-> VStr("MemoryPressure"), status |-> VStr("False")]),
                                     VMap([type |-> VStr("Ready"), status |-> VStr("True")]) >>)]
      [] o.resource = "nodes" /\ o.name = "node-odd" ->
             [conditions |-> VList(<< VMap([type |-> VStr("MemoryPressure"), status |-> VStr("False")]) >>)]
      [] o.resource = "virtualmachines" /\ o.name \in {"web-1", "vm-2"} ->
             [ready |-> VBool(o.name = "web-1"), created |-> VBool(TRUE)]
      [] o.resource = "virtualmachines" /\ o.name = "vm-4" ->
             [ready |-> VBool(TRUE), created |-> VBool(FALSE)]
      [] o.resource = "volumes" -> [state |-> VStr("Bound")]
      [] o.resource = "virtualmachineimages" -> [progress |-> VInt(100), size |-> VInt(1024)]
      [] OTHER -> EmptyMap

LabelsOf(o) ==
    IF o.resource = "pods" /\ o.name = "web-1"
    THEN [app |-> VStr("web"), tier |-> VStr("frontend")]
    ELSE IF o.name \in {"api-1", "odd-ns"}
    THEN [app |-> VStr("api")]
    ELSE EmptyMap

\* The objects whose documents are handed to the formatters: the stored
\* ones and, per resource type, objects in the other conditions the
\* formatters tell apart (a pod with a reason, with an empty reason; nodes
\* that are ready, without a Ready condition, without conditions; virtual
\* machines without flags and ready but not created; a deployment without
\* replica fields; a terminating namespace and one without a phase, with
\* a label and annotations; a definition of another group; a network; a
\* service with a label and annotations).
Samples ==
    InitialStore \cup
    { Object("pods", "default", "evicted-1"), Object("pods", "kube-system", "quiet-1"),
      Object("nodes", "", "node-up"), Object("nodes", "", "node-odd"), Object("nodes", "", "node-new"),
      Object("virtualmachines", "default", "vm-3"), Object("virtualmachines", "kube-system", "vm-4"),
      Object("deployments", "kube-system", "bare-1"),
      Object("namespaces", "", "old-ns"), Object("namespaces", "", "odd-ns"),
      Object("customresourcedefinitions", "", "gadgets.other.io"),
      Object("networks", "kube-system", "vlan-1"), Object("services", "kube-system", "api-1") }

\* metadata of the document of a stored object; dns-0 is stored without
\* a creation timestamp.
MetadataOf(o) ==
    [k \in {"name"} \cup (IF o.namespace # "" THEN {"namespace"} ELSE {})
           \cup (IF o.name # "dns-0" THEN {"creationTimestamp"} ELSE {})
           \cup (IF DOMAIN LabelsOf(o) # {} THEN {"labels"} ELSE {})
           \cup (IF o.name \in {"api-1", "odd-ns"} THEN {"annotations"} ELSE {}) |->
        CASE k = "name" -> VStr(o.name)
          [] k = "namespace" -> VStr(o.namespace)
          [] k = "creationTimestamp" -> VStr("2024-05-01T10:00:00Z")
          [] k = "annotations" -> VMap([owner |-> VStr("ops"), note |-> VStr("kept")])
          [] OTHER -> VMap(LabelsOf(o))]

\* The document the platform returns for a stored object, declaring kind.
Document(o, kind) ==
    VMap([kind |-> VStr(kind), metadata |-> VMap(MetadataOf(o)),
          spec |-> VMap(SpecOf(o)), status |-> VMap(StatusOf(o))])

(***************************************************************************)
(* Remote calls (resources.go) and the platform's answers                  *)
(***************************************************************************)
RemoteCall(verb, ctx, gvr, namespace, name) ==
    [verb |-> verb, ctx |-> ctx, gvr |-> gvr, namespace |-> namespace, name |-> name]

NoCall == RemoteCall("none", "", GVR("", "", ""), "", "")

\* A list that ignores the namespace it is given.
ListResources_Unscoped(ctx, gvr, namespace) == RemoteCall("list", ctx, gvr, "", "")

ListResources(ctx, gvr, namespace) ==
    IF namespace = ""
    THEN RemoteCall("list", ctx, gvr, "", "")
    ELSE RemoteCall("list", ctx, gvr, namespace, "")

\* A get made under a context of its own instead of the caller's.
GetResource_Background(ctx, gvr, namespace, name) ==
    RemoteCall("get", "background", gvr, namespace, name)

GetResource(ctx, gvr, namespace, name) == RemoteCall("get", ctx, gvr, namespace, name)

\* The two writes of the resource handler that no tool calls.
CreateResource(ctx, gvr, namespace, obj) == RemoteCall("create", ctx, gvr, namespace, GetName(obj))

UpdateResource(ctx, gvr, namespace, obj) == RemoteCall("update", ctx, gvr, namespace, GetName(obj))

\* A delete that drops the namespace.
DeleteResource_AnyNamespace(ctx, gvr, namespace, name) ==
    RemoteCall("delete", ctx, gvr, "", name)

DeleteResource(ctx, gvr, namespace, name) == RemoteCall("delete", ctx, gvr, namespace, name)

Answer(err, items) == [err |-> err, items |-> items]

NoAnswer == Answer("", <<>>)

\* The stored objects a call addresses.
Addressed(call, stored) ==
    {o \in stored :
        /\ o.resource = call.gvr.Resource
        /\ call.namespace = "" \/ o.namespace = call.namespace
        /\ call.verb = "list" \/ (o.name = call.name /\ o.namespace = call.namespace)}

\* The answers the platform can give to a call: any call can fail for a
\* reason of the platform's own; a type it does not serve and an object it
\* does not store are not found.
Answers(call, stored) ==
    {Answer("Forbidden", <<>>)} \cup
    IF call.gvr \notin ServedGVRs THEN {Answer("NotFound", <<>>)}
    ELSE IF call.verb = "list"
    THEN {Answer("nil", LET hit == SelectSeq(StoredOrder, LAMBDA o : o \in Addressed(call, stored))
                        IN  [i \in DOMAIN hit |-> Document(hit[i], kind)]) :
             kind \in AnswerKinds(call.gvr.Resource)}
    ELSE IF call.verb = "create"
    THEN {Answer(IF Addressed(call, stored) = {} THEN "nil" ELSE "AlreadyExists", <<>>)}
    ELSE IF Addressed(call, stored) = {} THEN {Answer("NotFound", <<>>)}
    ELSE IF call.verb = "get"
    THEN {Answer("nil", <<Document(o, kind)>>) :
             o \in Addressed(call, stored), kind \in AnswerKinds(call.gvr.Resource)}
    ELSE {Answer("nil", <<>>)}

\* The stored objects after the platform has answered a call.
StoreAfter(call, answer, stored) ==
    IF answer.err # "nil" THEN stored
    ELSE CASE call.verb = "delete" -> stored \ Addressed(call, stored)
           [] call.verb = "create" ->
                  stored \cup {Object(call.gvr.Resource, call.namespace, call.name)}
           [] OTHER -> stored


(***************************************************************************)
(* Tool handlers (mcp/server.go, tools/pods.go, tools/virtual_machines.go) *)
(***************************************************************************)
NewToolResultText(text) == [isError |-> FALSE, text |-> text]

NewToolResultError(line) == [isError |-> TRUE, text |-> <<line>>]

NoResult == [isError |-> FALSE, text |-> <<>>]

\* `value, ok := req.Params.Arguments[key].(string)`
ArgString(args, key) ==
    IF key \in DOMAIN args /\ args[key].t = "string"
    THEN [ok |-> TRUE, s |-> args[key].v]
    ELSE [ok |-> FALSE, s |-> ""]

\* How far a handler gets without the platform: it returns, it waits for
\* the answer to a remote call, or the process panics.
Return(result) == [kind |-> "return", result |-> result, err |-> "nil", call |-> NoCall]

Await(call) == [kind |-> "await", result |-> NoResult, err |-> "nil", call |-> call]

Panic == [kind |-> "panic", result |-> NoResult, err |-> "nil", call |-> NoCall]

\* The two process-wide tables: the package variables ResourceTypeToGVR
\* and defaultRegistry, filled when the process starts and read by every
\* handler.
VARIABLE globals

defaultRegistry == globals.formatters

\* The registered handlers: the verb, the friendly type name looked up in
\* the table, how the namespace argument is taken ("optional", "required",
\* "none"), and the words of the handler's messages.
Tool(verb, type, ns, label, nameMsg) ==
    [verb |-> verb, type |-> type, ns |-> ns, label |-> label, nameMsg |-> nameMsg]

Handlers ==
    [ list_pods        |-> Tool("list", "pods", "optional", "pods", ""),
      get_pod          |-> Tool("get", "pod", "required", "pod", "Pod name is required"),
      delete_pod       |-> Tool("delete", "pod", "required", "pod", "Pod name is required"),
      list_deployments |-> Tool("list", "deployments", "optional", "deployments", ""),
      get_deployment   |-> Tool("get", "deployment", "required", "deployment", "Deployment name is required"),
      list_services    |-> Tool("list", "services", "optional", "services", ""),
      get_service      |-> Tool("get", "service", "required", "service", "Service name is required"),
      list_namespaces  |-> Tool("list", "namespaces", "none", "namespaces", ""),
      get_namespace    |-> Tool("get", "namespace", "none", "namespace", "Namespace name is required"),
      list_nodes       |-> Tool("list", "nodes", "none", "nodes", ""),
      get_node         |-> Tool("get", "node", "none", "node", "Node name is required"),
      list_crds        |-> Tool("list", "crds", "none", "CRDs", ""),
      list_vms         |-> Tool("list", "vms", "optional", "VMs", ""),
      get_vm           |-> Tool("get", "vm", "required", "VM", "VM name is required"),
      list_images      |-> Tool("list", "images", "optional", "images", ""),
      list_volumes     |-> Tool("list", "volumes", "optional", "volumes", ""),
      list_networks    |-> Tool("list", "networks", "optional", "networks", "") ]

\* list_*: the namespace argument is optional, the zero value when absent
ListHandler_Start(h, ctx, args) ==
    LET namespace == IF Handlers[h].ns = "optional" THEN ArgString(args, "namespace").s ELSE ""
        gvr == globals.types[Handlers[h].type]
    IN  Await(ListResources(ctx, gvr, namespace))

\* A list handler that asks again, for all namespaces, when its call fails.
ListHandler_Finish_Retry(h, args, answer, ord) ==
    LET gvr == globals.types[Handlers[h].type]
        formatted == ResourceHandler_FormatResourceList(defaultRegistry, answer.items, gvr, ord)
    IN  IF answer.err # "nil"
        THEN Await(ListResources("ctx", gvr, ""))
        ELSE IF formatted.panic THEN Panic
        ELSE Return(NewToolResultText(formatted.text))

ListHandler_Finish(h, args, answer, ord) ==
    LET gvr == globals.types[Handlers[h].type]
        formatted == ResourceHandler_FormatResourceList(defaultRegistry, answer.items, gvr, ord)
    IN  IF answer.err # "nil"
        THEN Return(NewToolResultError(<<"Failed to list ", Handlers[h].label, ": ", answer.err>>))
        ELSE IF formatted.panic THEN Panic
        ELSE Return(NewToolResultText(formatted.text))

\* get_* and delete_pod: the argument checks before the remote call
CheckedStart(h, args) ==
    LET namespace == ArgString(args, "namespace")
        name == ArgString(args, "name")
    IN  IF Handlers[h].ns = "required" /\ (~namespace.ok \/ namespace.s = "")
        THEN [ok |-> FALSE, out |-> Return(NewToolResultError(<<"Namespace is required">>))]
        ELSE IF ~name.ok \/ name.s = ""
        THEN [ok |-> FALSE, out |-> Return(NewToolResultError(<<Handlers[h].nameMsg>>))]
        ELSE [ok |-> TRUE, out |-> Return(NoResult),
              namespace |-> IF Handlers[h].ns = "required" THEN namespace.s ELSE "",
              name |-> name.s]

\* A get handler that takes its arguments as they come.
GetHandler_Start_Unchecked(h, ctx, args) ==
    Await(GetResource(ctx, globals.types[Handlers[h].type],
                      ArgString(args, "namespace").s, ArgString(args, "name").s))

GetHandler_Start(h, ctx, args) ==
    LET gvr == globals.types[Handlers[h].type]
        checked == CheckedStart(h, args)
    IN  IF ~checked.ok THEN checked.out
        ELSE Await(GetResource(ctx, gvr, checked.namespace, checked.name))

\* "Failed to get pod %s in namespace %s: %v"; the cluster-scoped tools
\* have no namespace in the message
FailedTo(verb, h, args, err) ==
    LET namespace == ArgString(args, "namespace").s
        name == ArgString(args, "name").s
    IN  IF Handlers[h].ns = "required"
        THEN <<"Failed to ", verb, " ", Handlers[h].label, " ", name,
               " in namespace ", namespace, ": ", err>>
        ELSE <<"Failed to ", verb, " ", Handlers[h].label, " ", name, ": ", err>>

GetHandler_Finish(h, args, answer, ord) ==
    LET gvr == globals.types[Handlers[h].type]
        formatted == ResourceHandler_FormatResource(defaultRegistry, answer.items[1], gvr, ord)
    IN  IF answer.err # "nil"
        THEN Return(NewToolResultError(FailedTo("get", h, args, answer.err)))
        ELSE IF formatted.panic THEN Panic
        ELSE Return(NewToolResultText(formatted.text))

DeleteHandler_Start(h, ctx, args) ==
    LET gvr == globals.types[Handlers[h].type]
        checked == CheckedStart(h, args)
    IN  IF ~checked.ok THEN checked.out
        ELSE Await(DeleteResource(ctx, gvr, checked.namespace, checked.name))

DeleteHandler_Finish(h, args, answer) ==
    LET namespace == ArgString(args, "namespace").s
        name == ArgString(args, "name").s
    IN  IF answer.err # "nil"
        THEN Return(NewToolResultError(FailedTo("delete", h, args, answer.err)))
        ELSE Return(NewToolResultText(
                 << <<"Pod ", name, " in namespace ", namespace, " deleted successfully">> >>))


(***************************************************************************)
(* The handlers of the tools package, which the server of pkg/mcp          *)
(* registers under delete_pod and get_vm                                   *)
(***************************************************************************)
tools_DeletePod_Start(ctx, args) ==
    LET namespace == ArgString(args, "namespace")
        name == ArgString(args, "name")
    IN  IF ~namespace.ok \/ namespace.s = ""
        THEN Return(NewToolResultError(<<"Namespace is required">>))
        ELSE IF ~name.ok \/ name.s = ""
        THEN Return(NewToolResultError(<<"Pod name is required">>))
        ELSE Await(RemoteCall("delete", ctx, GVR("", "v1", "pods"), namespace.s, name.s))

tools_DeletePod_Finish(args, answer) ==
    LET namespace == ArgString(args, "namespace").s
        name == ArgString(args, "name").s
    IN  IF answer.err # "nil"
        THEN Return(NewToolResultError(
                 <<"Failed to ", "delete", " ", "pod", " ", name,
                   " in namespace ", namespace, ": ", answer.err>>))
        ELSE Return(NewToolResultText(
                 << <<"Successfully deleted pod ", name, " in namespace ", namespace>> >>))

vmGVR == GVR("kubevirt.io", "v1", "virtualmachines")

\* dynamic.NewForConfig comes first and can fail on the client
\* configuration (configOK); it sends nothing to the platform.
tools_GetVirtualMachine_Start(ctx, args, configOK) ==
    LET namespace == ArgString(args, "namespace")
        name == ArgString(args, "name")
    IN  IF ~configOK
        THEN Return(NewToolResultError(<<"Failed to create dynamic client: ", "invalid configuration">>))
        ELSE IF ~namespace.ok \/ namespace.s = ""
        THEN Return(NewToolResultError(<<"Namespace is required">>))
        ELSE IF ~name.ok \/ name.s = ""
        THEN Return(NewToolResultError(<<"Virtual Machine name is required">>))
        ELSE Await(RemoteCall("get", ctx, vmGVR, namespace.s, name.s))

\* encoding/json on a document value; the keys of a map are written in
\* one fixed order, and the indentation of nested values is left out.
RECURSIVE Json(_)
RECURSIVE JsonJoin(_)
JsonJoin(parts) ==
    IF Len(parts) = 0 THEN ""
    ELSE IF Len(parts) = 1 THEN parts[1]
    ELSE parts[1] \o "," \o JsonJoin(Tail(parts))

Json(val) ==
    CASE val.t = "string" -> "\"" \o val.v \o "\""
      [] val.t = "int64" -> Itoa(val.v)
      [] val.t = "bool" -> FmtBool(val.v)
      [] val.t = "map" ->
             LET ks == RangeKeys(DOMAIN val.v, <<>>)
             IN  "{" \o JsonJoin([i \in DOMAIN ks |-> "\"" \o ks[i] \o "\":" \o Json(val.v[ks[i]])]) \o "}"
      [] val.t = "slice" -> "[" \o JsonJoin([i \in DOMAIN val.v |-> Json(val.v[i])]) \o "]"
      [] OTHER -> "null"

\* formatVirtualMachine of the tools package, then json.MarshalIndent
tools_formatVirtualMachine(vm) ==
    << <<"{">>,
       <<"  \"name\": ", Json(VStr(GetName(vm))), ",">>,
       <<"  \"namespace\": ", Json(VStr(GetNamespace(vm))), ",">>,
       <<"  \"spec\": ", Json(VMap(getNestedMap(vm, <<"spec">>))), ",">>,
       <<"  \"status\": ", Json(VMap(getNestedMap(vm, <<"status">>)))>>,
       <<"}">> >>

tools_GetVirtualMachine_Finish(args, answer) ==
    LET namespace == ArgString(args, "namespace").s
        name == ArgString(args, "name").s
    IN  IF answer.err # "nil"
        THEN Return(NewToolResultError(
                 <<"Failed to ", "get", " ", "virtual machine", " ", name,
                   " in namespace ", namespace, ": ", answer.err>>))
        ELSE Return(NewToolResultText(tools_formatVirtualMachine(answer.items[1])))

\* Every registered handler.
HandlerNames == DOMAIN Handlers \cup {"tools_DeletePod", "tools_GetVirtualMachine"}

\* The handler from its entry to its first remote call or its return.
Start(h, ctx, args, configOK) ==
    CASE h = "tools_DeletePod" -> tools_DeletePod_Start(ctx, args)
      [] h = "tools_GetVirtualMachine" -> tools_GetVirtualMachine_Start(ctx, args, configOK)
      [] OTHER ->
             CASE Handlers[h].verb = "list" -> ListHandler_Start(h, ctx, args)
               [] Handlers[h].verb = "get" -> GetHandler_Start(h, ctx, args)
               [] Handlers[h].verb = "delete" -> DeleteHandler_Start(h, ctx, args)

\* The handler from the answer to its remote call onwards.
Finish(h, args, answer, ord) ==
    CASE h = "tools_DeletePod" -> tools_DeletePod_Finish(args, answer)
      [] h = "tools_GetVirtualMachine" -> tools_GetVirtualMachine_Finish(args, answer)
      [] OTHER ->
             CASE Handlers[h].verb = "list" -> ListHandler_Finish(h, args, answer, ord)
               [] Handlers[h].verb = "get" -> GetHandler_Finish(h, args, answer, ord)
               [] Handlers[h].verb = "delete" -> DeleteHandler_Finish(h, args, answer)

(***************************************************************************)
(* The server as a state machine                                           *)
(***************************************************************************)
VARIABLES
    inv,        \* the invocations: position, handler, arguments, the remote
                \* call in flight, the calls issued, cancellation, the
                \* platform's answer, the result and protocol-level error
    store,      \* the objects the platform stores
    crashed,    \* the server process has panicked
    reg         \* the last direct use of the formatter registry

vars == <<inv, store, crashed, reg, globals>>

\* The argument values a caller sends: a key left out (Nil), a value that
\* is not a string, the empty string, and names.
NamespaceArgs == {Nil, VInt(7), VStr(""), VStr("default"), VStr("kube-system")}

NameArgs == {Nil, VInt(7), VStr(""), VStr("web-1"), VStr("ghost")}

Arguments ==
    {[k \in (IF ns = Nil THEN {} ELSE {"namespace"}) \cup (IF nm = Nil THEN {} ELSE {"name"}) |->
         IF k = "namespace" THEN ns ELSE nm] : ns \in NamespaceArgs, nm \in NameArgs}

\* The invocations the server has room for at a time.
Slots == {"a"}

Idle ==
    [pc |-> "idle", handler |-> "", args |-> EmptyMap, call |-> NoCall, ncalls |-> 0,
     cancelled |-> FALSE, answer |-> NoAnswer, result |-> NoResult, err |-> "nil"]

NoUse == [op |-> "none", input |-> <<>>, text |-> <<>>, again |-> <<>>]

Init ==
    /\ inv = [s \in Slots |-> Idle]
    /\ store \in {InitialStore, {o \in InitialStore : o.resource \in {"namespaces", "nodes"}}}
    /\ crashed = FALSE
    /\ reg = NoUse
    /\ globals = [types |-> ResourceTypeToGVR, formatters |-> NewFormatterRegistry]

\* The slot after the handler has run up to out.
Advance(slot, out) ==
    IF out.kind = "await"
    THEN [slot EXCEPT !.pc = "inflight", !.call = out.call, !.ncalls = @ + 1, !.answer = NoAnswer]
    ELSE [slot EXCEPT !.pc = "done", !.result = out.result, !.err = out.err]

\* A caller invokes a tool: the handler runs to its first remote call, or
\* returns without one.
Invoke(s) ==
    /\ ~crashed
    /\ inv[s].pc = "idle"
    /\ \E h \in HandlerNames, args \in Arguments, configOK \in BOOLEAN :
           inv' = [inv EXCEPT ![s] =
                      Advance([Idle EXCEPT !.handler = h, !.args = args],
                              Start(h, "ctx", args, configOK))]
    /\ UNCHANGED <<store, crashed, reg, globals>>

\* The platform answers the call in flight. A call made under the
\* request's context is not answered once the context is cancelled.
Respond(s) ==
    /\ ~crashed
    /\ inv[s].pc = "inflight"
    /\ ~(inv[s].cancelled /\ inv[s].call.ctx = "ctx")
    /\ \E answer \in Answers(inv[s].call, store) :
           /\ inv' = [inv EXCEPT ![s].pc = "answered", ![s].answer = answer]
           /\ store' = StoreAfter(inv[s].call, answer, store)
    /\ UNCHANGED <<crashed, reg, globals>>

\* The caller cancels the invocation while its remote call is in flight.
Cancel(s) ==
    /\ ~crashed
    /\ inv[s].pc = "inflight"
    /\ ~inv[s].cancelled
    /\ inv' = [inv EXCEPT ![s].cancelled = TRUE]
    /\ UNCHANGED <<store, crashed, reg, globals>>

\* The client library aborts a call whose context is cancelled: the call
\* returns the context's error and changes nothing on the platform.
Abort(s) ==
    /\ ~crashed
    /\ inv[s].pc = "inflight"
    /\ inv[s].cancelled
    /\ inv[s].call.ctx = "ctx"
    /\ inv' = [inv EXCEPT ![s].pc = "answered", ![s].answer = Answer("context canceled", <<>>)]
    /\ UNCHANGED <<store, crashed, reg, globals>>

\* A handler that goes on from the answer last written by any invocation,
\* as if the answer were kept in a field shared by the handlers.
Continue_Shared(s) ==
    /\ ~crashed
    /\ inv[s].pc = "answered"
    /\ \E ord \in Orders, t \in DOMAIN inv :
           LET out == Finish(inv[s].handler, inv[s].args, inv[t].answer, ord)
           IN  IF out.kind = "panic"
               THEN crashed' = TRUE /\ inv' = inv
               ELSE crashed' = crashed /\ inv' = [inv EXCEPT ![s] = Advance(inv[s], out)]
    /\ UNCHANGED <<store, reg, globals>>

\* The handler goes on from the answer: to its return, to another remote
\* call, or into a panic of the formatting that takes the process down.
Continue(s) ==
    /\ ~crashed
    /\ inv[s].pc = "answered"
    /\ \E ord \in Orders :
           LET out == Finish(inv[s].handler, inv[s].args, inv[s].answer, ord)
           IN  IF out.kind = "panic"
               THEN crashed' = TRUE /\ inv' = inv
               ELSE crashed' = crashed /\ inv' = [inv EXCEPT ![s] = Advance(inv[s], out)]
    /\ UNCHANGED <<store, reg, globals>>

\* The result is delivered to the caller.
Deliver(s) ==
    /\ ~crashed
    /\ inv[s].pc = "done"
    /\ inv' = [inv EXCEPT ![s] = Idle]
    /\ UNCHANGED <<store, crashed, reg, globals>>

(***************************************************************************)
(* The formatter registry used directly: FormatResource and                *)
(* FormatResourceList of FormatterRegistry on documents of any kind        *)
(***************************************************************************)
\* Longest collection handed to FormatResourceList.
MaxItems == 2

\* The kinds the documents handed to the registry declare; "" is a
\* document without a kind.
DeclaredKinds == DOMAIN NewFormatterRegistry \cup {"Widget", ""}

\* A caller renders one document.
RenderOne ==
    /\ reg.op = "none"
    /\ \E o \in Samples, kind \in DeclaredKinds, ord \in Orders :
           reg' = [op |-> "FormatResource", input |-> <<Document(o, kind)>>,
                   text |-> FormatterRegistry_FormatResource(defaultRegistry, Document(o, kind), ord),
                   again |-> <<>>]
    /\ UNCHANGED <<inv, store, crashed, globals>>

\* A caller renders a collection: objects of one resource type, the
\* first document declaring one kind and the others one kind.
RenderMany ==
    /\ reg.op = "none"
    /\ \E resource \in {o.resource : o \in Samples}, n \in 0..MaxItems :
           \E first \in {KindOfResource(resource), "Widget", ""},
              objs \in [1..n -> {o \in Samples : o.resource = resource}], ord \in Orders :
               \E rest \in {first, "Widget"} :
                   LET list == [i \in 1..n |-> Document(objs[i], IF i = 1 THEN first ELSE rest)]
                   IN  reg' = [op |-> "FormatResourceList", input |-> list,
                               text |-> FormatterRegistry_FormatResourceList(defaultRegistry, list, ord),
                               again |-> <<>>]
    /\ UNCHANGED <<inv, store, crashed, globals>>

\* The caller renders the same input a second time.
RenderAgain ==
    /\ reg.op # "none"
    /\ reg.again = <<>>
    /\ \E ord \in Orders :
           reg' = [reg EXCEPT !.again =
                      IF reg.op = "FormatResource"
                      THEN FormatterRegistry_FormatResource(defaultRegistry, reg.input[1], ord)
                      ELSE FormatterRegistry_FormatResourceList(defaultRegistry, reg.input, ord)]
    /\ UNCHANGED <<inv, store, crashed, globals>>

\* The caller takes the text.
Taken ==
    /\ reg.op # "none"
    /\ reg' = NoUse
    /\ UNCHANGED <<inv, store, crashed, globals>>

RegistryNext == RenderOne \/ RenderMany \/ RenderAgain \/ Taken

RegistrySpec == Init /\ [][RegistryNext]_vars

(***************************************************************************)
(* Two invocations at a time: the server library runs every handler on a   *)
(* goroutine of its own                                                    *)
(***************************************************************************)
Callers == {"a", "b"}

ConcurrentInit ==
    /\ inv = [s \in Callers |-> Idle]
    /\ store = InitialStore
    /\ crashed = FALSE
    /\ reg = NoUse
    /\ globals = [types |-> ResourceTypeToGVR, formatters |-> NewFormatterRegistry]

\* A caller invokes one of the tools while another invocation may be
\* under way.
InvokeSome(s) ==
    /\ ~crashed
    /\ inv[s].pc = "idle"
    /\ \E h \in {"list_pods", "get_pod", "delete_pod"},
          args \in {[namespace |-> VStr("default")],
                    [namespace |-> VStr("default"), name |-> VStr("web-1")]} :
           inv' = [inv EXCEPT ![s] =
                      Advance([Idle EXCEPT !.handler = h, !.args = args],
                              Start(h, "ctx", args, TRUE))]
    /\ UNCHANGED <<store, crashed, reg, globals>>

ConcurrentNext ==
    \E s \in Callers :
        InvokeSome(s) \/ Respond(s) \/ Cancel(s) \/ Abort(s) \/ Continue(s) \/ Deliver(s)

ConcurrentSpec == ConcurrentInit /\ [][ConcurrentNext]_vars

Next ==
    \E s \in Slots :
        Invoke(s) \/ Respond(s) \/ Cancel(s) \/ Abort(s) \/ Continue(s) \/ Deliver(s)

Spec == Init /\ [][Next]_vars

\* The client library acts on a cancelled context, and a handler whose
\* call has returned an error runs on to its return (the `if err != nil`
\* branch of every handler); the platform is not bound to ever answer,
\* nor the caller to collect.
FairSpec ==
    Spec /\ \A s \in Slots :
                /\ WF_vars(Abort(s))
                /\ WF_vars(inv[s].answer.err # "nil" /\ Continue(s))


(***************************************************************************)
(* Properties                                                              *)
(***************************************************************************)
\* The text shows the piece on one of its lines.
Shows(text, piece) == \E i \in DOMAIN text : \E j \in DOMAIN text[i] : text[i][j] = piece

\* The invocation has returned after a remote call that succeeded / failed.
Succeeded(s) == inv[s].pc = "done" /\ inv[s].ncalls > 0 /\ inv[s].answer.err = "nil"

RemoteFailed(s) == inv[s].pc = "done" /\ inv[s].ncalls > 0 /\ inv[s].answer.err # "nil"

\* The get_* and list_* tools of the server built on the resource handler.
ReadTools == {h \in DOMAIN Handlers : Handlers[h].verb \in {"list", "get"}}

\* The kind registered on the platform for the type a tool requests.
RequestedKind(h) == KindOfResource(ResourceTypeToGVR[Handlers[h].type].Resource)

RegisteredKinds ==
    {"Pod", "Service", "Namespace", "Node", "Deployment", "VirtualMachine", "Volume",
     "Network", "VirtualMachineImage", "CustomResourceDefinition"}

\* C2: for a document whose declared kind has no registered formatter,
\* FormatResource (and FormatResourceList on a non-empty collection whose
\* first item declares such a kind) produces a text that shows the kind
\* and, for every document rendered, its name and its creation time.
C2_FallbackShowsKindNameCreated ==
    (reg.op \in {"FormatResource", "FormatResourceList"}
     /\ reg.input # <<>>
     /\ GetKind(reg.input[1]) \notin RegisteredKinds) =>
        /\ Shows(reg.text, GetKind(reg.input[1]))
        /\ \A i \in DOMAIN reg.input :
               /\ Shows(reg.text, GetName(reg.input[i]))
               /\ Shows(reg.text, CreationTime(reg.input[i]))

\* A collection of two documents of an unregistered kind, one with and one
\* without a creation timestamp, has been rendered.
C2_Witness ==
    /\ reg.op = "FormatResourceList"
    /\ Len(reg.input) = 2
    /\ GetKind(reg.input[1]) = "Widget"
    /\ GetName(reg.input[1]) = "web-1"
    /\ GetName(reg.input[2]) = "dns-0"
    /\ Shows(reg.text, ZeroTime)

\* The two spellings of each kind of the resource-type table.
Spellings ==
    { <<"pod", "pods">>, <<"deployment", "deployments">>, <<"service", "services">>,
      <<"namespace", "namespaces">>, <<"node", "nodes">>, <<"crd", "crds">>,
      <<"vm", "vms">>, <<"volume", "volumes">>, <<"network", "networks">>,
      <<"image", "images">> }

\* C3: every friendly name of the table resolves to an identifier with a
\* version and a resource; the singular and the plural of a kind resolve
\* to the same identifier, names of different kinds to different ones;
\* and the identifier of every remote call a tool issues is the one both
\* spellings of its type resolve to.
C3_TableResolves ==
    /\ DOMAIN ResourceTypeToGVR = UNION {{p[1], p[2]} : p \in Spellings}
    /\ \A t \in DOMAIN ResourceTypeToGVR :
           ResourceTypeToGVR[t].Version # "" /\ ResourceTypeToGVR[t].Resource # ""
    /\ \A p \in Spellings : ResourceTypeToGVR[p[1]] = ResourceTypeToGVR[p[2]]
    /\ \A p, q \in Spellings : p # q => ResourceTypeToGVR[p[1]] # ResourceTypeToGVR[q[1]]
    /\ \A s \in Slots :
           inv[s].pc = "inflight" /\ inv[s].handler \in DOMAIN Handlers =>
               \A p \in Spellings :
                   Handlers[inv[s].handler].type \in {p[1], p[2]} =>
                       /\ inv[s].call.gvr = ResourceTypeToGVR[p[1]]
                       /\ inv[s].call.gvr = ResourceTypeToGVR[p[2]]

\* list_vms, which looks up the plural, has a call in flight for the
\* identifier of the singular.
C3_Witness ==
    \E s \in Slots :
        /\ inv[s].pc = "inflight"
        /\ inv[s].handler = "list_vms"
        /\ inv[s].call.gvr = ResourceTypeToGVR["vm"]

\* The get and delete tools, with the handlers of the tools package, and
\* those of them that require a namespace.
CheckedTools ==
    {"get_pod", "delete_pod", "get_deployment", "get_service", "get_vm", "get_namespace",
     "get_node", "tools_DeletePod", "tools_GetVirtualMachine"}

NamespacedTools == CheckedTools \ {"get_namespace", "get_node"}

\* The argument is missing, not a string, or empty.
Unusable(args, key) ==
    key \notin DOMAIN args \/ args[key].t # "string" \/ args[key].v = ""

\* C4: when a get or delete tool is invoked with a required argument
\* (the namespace for namespaced kinds, the name for all) missing, empty
\* or not a string, it returns an error result and issues no remote call
\* at any point of the invocation.
C4_InvalidArgumentsNoCall ==
    \A s \in Slots :
        (/\ inv[s].pc # "idle"
         /\ inv[s].handler \in CheckedTools
         /\ \/ Unusable(inv[s].args, "name")
            \/ inv[s].handler \in NamespacedTools /\ Unusable(inv[s].args, "namespace")) =>
            /\ inv[s].pc = "done"
            /\ inv[s].ncalls = 0
            /\ inv[s].call = NoCall
            /\ inv[s].result.isError

\* get_vm has returned for a namespace and a name that is not a string.
C4_Witness ==
    \E s \in Slots :
        /\ inv[s].pc = "done"
        /\ inv[s].handler = "get_vm"
        /\ inv[s].args = [namespace |-> VStr("default"), name |-> VInt(7)]
        /\ inv[s].result = NewToolResultError(<<"VM name is required">>)

\* C5: every invocation, whatever the platform answers, ends by returning
\* one result, a text or an error text, with a nil protocol-level error,
\* and no answer of the platform takes the process down.
C5_OneResultNilError ==
    /\ [](/\ ~crashed
          /\ \A s \in Slots :
                 inv[s].pc = "done" =>
                     /\ inv[s].err = "nil"
                     /\ inv[s].result.isError \in BOOLEAN
                     /\ inv[s].result.text # <<>>)
    /\ [][\A s \in Slots :
              inv[s].pc = "answered" /\ inv'[s] # inv[s] => inv'[s].pc = "done"]_vars

\* delete_pod has returned an error text for a pod the platform does not
\* store.
C5_Witness ==
    \E s \in Slots :
        /\ inv[s].pc = "done"
        /\ inv[s].handler = "delete_pod"
        /\ inv[s].answer.err = "NotFound"
        /\ inv[s].result.isError
        /\ inv[s].err = "nil"

\* The words that name a resource type in a message.
TypeWords(resource) ==
    CASE resource = "pods" -> {"pod", "pods"}
      [] resource = "services" -> {"service", "services"}
      [] resource = "namespaces" -> {"namespace", "namespaces"}
      [] resource = "nodes" -> {"node", "nodes"}
      [] resource = "deployments" -> {"deployment", "deployments"}
      [] resource = "customresourcedefinitions" -> {"CRD", "CRDs"}
      [] resource = "virtualmachines" -> {"VM", "VMs", "virtual machine"}
      [] resource = "volumes" -> {"volume", "volumes"}
      [] resource = "networks" -> {"network", "networks"}
      [] resource = "virtualmachineimages" -> {"image", "images"}
      [] OTHER -> {}

\* C6: when the remote call of an invocation fails, the error text names
\* the resource type, shows every namespace and name that scoped the call,
\* and shows the cause.
C6_ErrorNamesScope ==
    \A s \in Slots :
        RemoteFailed(s) =>
            /\ inv[s].result.isError
            /\ \E w \in TypeWords(inv[s].call.gvr.Resource) : Shows(inv[s].result.text, w)
            /\ inv[s].call.namespace # "" => Shows(inv[s].result.text, inv[s].call.namespace)
            /\ inv[s].call.name # "" => Shows(inv[s].result.text, inv[s].call.name)
            /\ Shows(inv[s].result.text, inv[s].answer.err)

\* The handlers registered under delete_pod.
DeletePodTools == {"delete_pod", "tools_DeletePod"}

\* C7: the only invocation that writes to the platform is delete_pod, and
\* what it issues is the delete of the named pod in the named namespace;
\* the stored objects change by nothing but the removal of that pod.
C7_OnlyDeletePodWrites ==
    /\ [](\A s \in Slots :
              /\ inv[s].call.verb \in {"none", "list", "get", "delete"}
              /\ inv[s].call.verb = "delete" =>
                     /\ inv[s].handler \in DeletePodTools
                     /\ inv[s].call.gvr = GVR("", "v1", "pods")
                     /\ inv[s].call.namespace = ArgString(inv[s].args, "namespace").s
                     /\ inv[s].call.name = ArgString(inv[s].args, "name").s
                     /\ inv[s].call.namespace # "" /\ inv[s].call.name # "")
    /\ [][store' # store =>
              \E s \in Slots :
                  /\ inv[s].handler \in DeletePodTools
                  /\ inv[s].pc = "inflight"
                  /\ store' = store \ {Object("pods", ArgString(inv[s].args, "namespace").s,
                                              ArgString(inv[s].args, "name").s)}]_vars

\* delete_pod has returned and the pod is gone from the platform.
C7_Witness ==
    \E s \in Slots :
        /\ Succeeded(s)
        /\ inv[s].handler = "delete_pod"
        /\ store = InitialStore \ {Object("pods", "default", "web-1")}

\* C8: an invocation issues at most one remote call; after a remote
\* failure the call is not issued again and the invocation that made it
\* reports the failure.
C8_AtMostOneCall ==
    \A s \in Slots :
        /\ inv[s].ncalls <= 1
        /\ RemoteFailed(s) =>
               inv[s].result.isError /\ Shows(inv[s].result.text, inv[s].answer.err)

\* list_pods has returned the failure of its one call.
C8_Witness ==
    \E s \in Slots :
        /\ RemoteFailed(s)
        /\ inv[s].handler = "list_pods"
        /\ inv[s].ncalls = 1
        /\ inv[s].answer.err = "Forbidden"

\* C9: every remote call is issued with the context of the invocation,
\* and an invocation cancelled while its remote call is in flight does
\* not hang: it returns, and returns an error text with the cancellation
\* cause.
C9_CancelledReturnsError ==
    \A s \in Slots :
        /\ [](inv[s].pc = "inflight" => inv[s].call.ctx = "ctx")
        /\ [](inv[s].pc = "done" /\ inv[s].cancelled =>
                  inv[s].result.isError /\ Shows(inv[s].result.text, "context canceled"))
        /\ (inv[s].pc = "inflight" /\ inv[s].cancelled) ~>
               (inv[s].pc = "done" /\ inv[s].cancelled /\ inv[s].result.isError)

\* get_pod, cancelled in flight, has returned.
C9_Witness ==
    \E s \in Slots :
        /\ inv[s].pc = "done"
        /\ inv[s].cancelled
        /\ inv[s].handler = "get_pod"
        /\ Shows(inv[s].result.text, "context canceled")

\* The list_* tools that take a namespace argument.
NamespacedListTools ==
    {"list_pods", "list_deployments", "list_services", "list_vms", "list_images",
     "list_volumes", "list_networks"}

\* The namespace a caller's arguments name; none when the argument is
\* absent or not a string.
NamespaceNamed(args) ==
    IF "namespace" \in DOMAIN args /\ args["namespace"].t = "string"
    THEN args["namespace"].v ELSE ""

\* C10: a list_* tool issues one list request; a namespaced one scopes it
\* to the namespace its arguments name and leaves it unscoped when they
\* name none (absent, not a string, or empty); the others are unscoped.
\* A scoped request is answered with documents of that namespace only.
C10_ListScope ==
    \A s \in Slots :
        (inv[s].pc \in {"inflight", "answered", "done"}
         /\ inv[s].handler \in DOMAIN Handlers
         /\ Handlers[inv[s].handler].verb = "list") =>
            /\ inv[s].ncalls = 1
            /\ inv[s].call.verb = "list"
            /\ inv[s].call.name = ""
            /\ inv[s].call.namespace =
                   IF inv[s].handler \in NamespacedListTools
                   THEN NamespaceNamed(inv[s].args) ELSE ""
            /\ \A i \in DOMAIN inv[s].answer.items :
                   NamespaceNamed(inv[s].args) # "" /\ inv[s].handler \in NamespacedListTools =>
                       GetNamespace(inv[s].answer.items[i]) = NamespaceNamed(inv[s].args)

\* list_vms for kube-system has returned the one machine of that
\* namespace out of the two the platform stores.
C10_Witness ==
    \E s \in Slots :
        /\ Succeeded(s)
        /\ inv[s].handler = "list_vms"
        /\ NamespaceNamed(inv[s].args) = "kube-system"
        /\ Len(inv[s].answer.items) = 1
        /\ GetName(inv[s].answer.items[1]) = "vm-2"

C12_NoPodsText ==
    \A s \in Slots :
        (Succeeded(s) /\ inv[s].handler = "list_pods" /\ inv[s].answer.items = <<>>) =>
            inv[s].result = NewToolResultText(<< <<"No pods found in the specified namespace(s).">> >>)

\* list_pods, asked without a namespace on a platform that stores no
\* pod, has returned for zero items.
C12_Witness ==
    \E s \in Slots :
        /\ Succeeded(s)
        /\ inv[s].handler = "list_pods"
        /\ inv[s].answer.items = <<>>
        /\ NamespaceNamed(inv[s].args) = ""
        /\ inv[s].result.text # <<>>

\* The kinds whose list view groups the items by namespace.
NamespacedKinds ==
    {"Pod", "Service", "Deployment", "VirtualMachine", "Volume", "Network", "VirtualMachineImage"}

\* The lines of a list view: the header of a namespace group, the first
\* line of an item.
IsHeader(line) == Len(line) = 5 /\ line[1] = "Namespace: " /\ line[3] = " ("

IsItem(line) == Len(line) = 2 /\ line[1] = "  * "

HeadersAt(text) == {h \in DOMAIN text : IsHeader(text[h])}

\* The header line i stands under, 0 when there is none above it.
Under(text, i) ==
    LET above == {h \in HeadersAt(text) : h < i}
    IN  IF above = {} THEN 0 ELSE CHOOSE h \in above : \A g \in above : g <= h

\* The names printed as items under header h, in the order printed.
ItemsUnder(text, h) ==
    LET at == SelectSeq([i \in DOMAIN text |-> i], LAMBDA i : IsItem(text[i]) /\ Under(text, i) = h)
    IN  [k \in DOMAIN at |-> text[at[k]][2]]

\* The names of the items of a namespace, in the order of the collection.
NamesIn(list, namespace) ==
    LET at == SelectSeq([i \in DOMAIN list |-> i], LAMBDA i : GetNamespace(list[i]) = namespace)
    IN  [k \in DOMAIN at |-> GetName(list[at[k]])]

\* The number a count piece prints, -1 when it is not a number.
Printed(piece) ==
    IF \E n \in 0..(MaxItems + 1) : Itoa(n) = piece
    THEN CHOOSE n \in 0..(MaxItems + 1) : Itoa(n) = piece
    ELSE -1

RECURSIVE SumPrinted(_, _)
SumPrinted(text, hs) ==
    IF hs = {} THEN 0
    ELSE LET h == CHOOSE g \in hs : TRUE
         IN  Printed(text[h][4]) + SumPrinted(text, hs \ {h})

\* C13: the list view of a non-empty collection whose first item declares
\* a namespaced kind starts with the length of the collection, has exactly
\* one group header for each namespace among the items and none for any
\* other, prints under each header the items of that namespace, each once,
\* and prints in each header the size of its group; the sizes printed add
\* up to the length of the collection.
C13_GroupingInvariant ==
    (reg.op = "FormatResourceList" /\ reg.input # <<>> /\ GetKind(reg.input[1]) \in NamespacedKinds) =>
        LET list == reg.input
            text == reg.text
            hs == HeadersAt(text)
        IN  /\ text[1][1] = "Found "
            /\ text[1][2] = Itoa(Len(list))
            /\ \A i \in DOMAIN list :
                   Cardinality({h \in hs : text[h][2] = GetNamespace(list[i])}) = 1
            /\ \A i \in DOMAIN text : IsItem(text[i]) => Under(text, i) # 0
            /\ \A h \in hs :
                   /\ \E i \in DOMAIN list : GetNamespace(list[i]) = text[h][2]
                   /\ ItemsUnder(text, h) = NamesIn(list, text[h][2])
                   /\ text[h][4] = Itoa(Len(NamesIn(list, text[h][2])))
            /\ SumPrinted(text, hs) = Len(list)

\* Two virtual machines of two namespaces have been rendered as a list:
\* two headers, each with one item.
C13_Witness ==
    /\ reg.op = "FormatResourceList"
    /\ Len(reg.input) = 2
    /\ GetKind(reg.input[1]) = "VirtualMachine"
    /\ GetNamespace(reg.input[1]) # GetNamespace(reg.input[2])
    /\ Cardinality(HeadersAt(reg.text)) = 2
    /\ \A h \in HeadersAt(reg.text) : Len(ItemsUnder(reg.text, h)) = 1

\* C14: rendering the detail view of a document twice yields the same
\* text, whatever the kind and however many labels, annotations, selector
\* entries or resource entries the document has.
C14_DetailRepeatable ==
    (reg.op = "FormatResource" /\ reg.again # <<>>) => reg.again = reg.text

\* The group headers and the first lines of the entries of a list view, in
\* the order printed.
Outline(text) ==
    SelectSeq(text, LAMBDA line :
        /\ line # <<>>
        /\ line[1] \in {"Namespace: ", "Group: ", "Cluster-scoped resources (", "  * ", "* "})

\* C15: rendering the list view of a collection twice yields the groups in
\* the same order and the entries of each group in the same order, also
\* for a collection of two or more namespaces or definition groups.
C15_ListOrderRepeatable ==
    (reg.op = "FormatResourceList" /\ reg.again # <<>>) => Outline(reg.again) = Outline(reg.text)

\* The value of the field key of the document's status, Nil when the
\* document has none.
Observed(doc, key) ==
    IF "status" \in DOMAIN doc.v /\ doc.v["status"].t = "map" /\ key \in DOMAIN doc.v["status"].v
    THEN doc.v["status"].v[key]
    ELSE Nil

\* The status words a detail view shows.
DetailStatus(text) == {text[i][2] : i \in {j \in DOMAIN text : Len(text[j]) = 2 /\ text[j][1] = "Status: "}}

\* The entries of a list view: the name of each with the status word of
\* the line below it.
EntryStatus(text) ==
    {<<text[i][2], text[i + 1][2]>> :
        i \in {j \in DOMAIN text :
                  /\ Len(text[j]) = 2 /\ text[j][1] \in {"  * ", "* "}
                  /\ j + 1 \in DOMAIN text
                  /\ Len(text[j + 1]) = 2 /\ text[j + 1][1] \in {"    Status: ", "  Status: "}}}

\* The status the documents of a collection are to show, by name.
Expected(list, status) == {<<GetName(list[i]), status[i]>> : i \in DOMAIN list}

\* status.reason when it is a non-empty string, status.phase otherwise.
ReasonOrPhase(doc) ==
    LET reason == Observed(doc, "reason")
        phase == Observed(doc, "phase")
    IN  IF reason.t = "string" /\ reason.v # "" THEN reason.v
        ELSE IF phase.t = "string" THEN phase.v ELSE ""

\* C16: the pod formatter shows as the status of a pod its status.reason
\* when that is a non-empty string and its status.phase otherwise, in the
\* detail view and in every entry of the list view.
C16_PodStatusReasonOrPhase ==
    /\ (reg.op = "FormatResource" /\ GetKind(reg.input[1]) = "Pod") =>
           DetailStatus(reg.text) = {ReasonOrPhase(reg.input[1])}
    /\ (reg.op = "FormatResourceList" /\ reg.input # <<>> /\ GetKind(reg.input[1]) = "Pod") =>
           EntryStatus(reg.text) =
               Expected(reg.input, [i \in DOMAIN reg.input |-> ReasonOrPhase(reg.input[i])])

\* The detail view of a pod with an empty reason and the phase "Running"
\* shows "Status: Running".
C16_Witness ==
    /\ reg.op = "FormatResource"
    /\ GetKind(reg.input[1]) = "Pod"
    /\ Observed(reg.input[1], "reason") = VStr("")
    /\ Observed(reg.input[1], "phase") = VStr("Running")
    /\ \E i \in DOMAIN reg.text : reg.text[i] = <<"Status: ", "Running">>

\* "Ready" when status.conditions holds a condition of type "Ready" with
\* status "True", "NotReady" in every other case.
ReadyOrNot(doc) ==
    LET conditions == Observed(doc, "conditions")
    IN  IF /\ conditions.t = "slice"
           /\ \E i \in DOMAIN conditions.v :
                  /\ conditions.v[i].t = "map"
                  /\ {"type", "status"} \subseteq DOMAIN conditions.v[i].v
                  /\ conditions.v[i].v["type"] = VStr("Ready")
                  /\ conditions.v[i].v["status"] = VStr("True")
        THEN "Ready" ELSE "NotReady"

\* C17: the node formatter shows "Ready" for a node exactly when its
\* status.conditions holds a Ready condition with status "True", and
\* "NotReady" otherwise, in the detail view and in the list view.
C17_NodeReadyOrNotReady ==
    /\ (reg.op = "FormatResource" /\ GetKind(reg.input[1]) = "Node") =>
           DetailStatus(reg.text) = {ReadyOrNot(reg.input[1])}
    /\ (reg.op = "FormatResourceList" /\ reg.input # <<>> /\ GetKind(reg.input[1]) = "Node") =>
           EntryStatus(reg.text) =
               Expected(reg.input, [i \in DOMAIN reg.input |-> ReadyOrNot(reg.input[i])])

\* "Running" when status.ready is true, else "Created" when
\* status.created is true, else "Unknown".
RunningCreatedUnknown(doc) ==
    IF Observed(doc, "ready") = VBool(TRUE) THEN "Running"
    ELSE IF Observed(doc, "created") = VBool(TRUE) THEN "Created"
    ELSE "Unknown"

\* C18: the virtual machine formatter shows "Running" when status.ready
\* is true, "Created" when status.ready is false or absent and
\* status.created is true, and "Unknown" when both are false or absent, in
\* the detail view and in every entry of the list view.
C18_VMStatusRunningCreatedUnknown ==
    /\ (reg.op = "FormatResource" /\ GetKind(reg.input[1]) = "VirtualMachine") =>
           DetailStatus(reg.text) = {RunningCreatedUnknown(reg.input[1])}
    /\ (reg.op = "FormatResourceList" /\ reg.input # <<>> /\ GetKind(reg.input[1]) = "VirtualMachine") =>
           EntryStatus(reg.text) =
               Expected(reg.input, [i \in DOMAIN reg.input |-> RunningCreatedUnknown(reg.input[i])])

\* A list of a virtual machine that is ready but not created and one
\* without either flag has been rendered: "Running" and "Unknown".
C18_Witness ==
    /\ reg.op = "FormatResourceList"
    /\ Len(reg.input) = 2
    /\ GetKind(reg.input[1]) = "VirtualMachine"
    /\ Observed(reg.input[1], "ready") = VBool(TRUE)
    /\ Observed(reg.input[1], "created") = VBool(FALSE)
    /\ Observed(reg.input[2], "ready") = Nil
    /\ Observed(reg.input[2], "created") = Nil
    /\ EntryStatus(reg.text) = {<<GetName(reg.input[1]), "Running">>, <<GetName(reg.input[2]), "Unknown">>}

\* The integer at key of a section of the document, 0 when it is absent.
IntAt(doc, section, key) ==
    IF /\ section \in DOMAIN doc.v /\ doc.v[section].t = "map"
       /\ key \in DOMAIN doc.v[section].v /\ doc.v[section].v[key].t = "int64"
    THEN doc.v[section].v[key].v
    ELSE 0

\* C19: the detail view of a deployment has one replica line with five
\* numbers in the order desired, updated, total, available, ready: desired
\* is spec.replicas, updated status.updatedReplicas, total status.replicas,
\* available status.availableReplicas and ready status.readyReplicas, each
\* 0 when the field is absent.
C19_FiveReplicaNumbers ==
    (reg.op = "FormatResource" /\ GetKind(reg.input[1]) = "Deployment") =>
        LET doc == reg.input[1]
            at == {i \in DOMAIN reg.text : reg.text[i] # <<>> /\ reg.text[i][1] = "Replicas: "}
        IN  /\ Cardinality(at) = 1
            /\ \A i \in at :
                   reg.text[i] =
                       <<"Replicas: ", Itoa(IntAt(doc, "spec", "replicas")), " desired | ",
                         Itoa(IntAt(doc, "status", "updatedReplicas")), " updated | ",
                         Itoa(IntAt(doc, "status", "replicas")), " total | ",
                         Itoa(IntAt(doc, "status", "availableReplicas")), " available | ",
                         Itoa(IntAt(doc, "status", "readyReplicas")), " ready">>

\* The bucket of a namespace by its observed phase: 1 for "Active", 2 for
\* "Terminating", 3 for every other phase and for none.
Bucket(doc) ==
    IF Observed(doc, "phase") = VStr("Active") THEN 1
    ELSE IF Observed(doc, "phase") = VStr("Terminating") THEN 2
    ELSE 3

\* The names of the entries of a namespace list view, in the order
\* printed.
EntryNames(text) ==
    LET at == SelectSeq([i \in DOMAIN text |-> i],
                  LAMBDA i : Len(text[i]) = 2 /\ text[i][1] \in {"  * ", "* "})
    IN  [k \in DOMAIN at |-> text[at[k]][2]]

\* C20: the list view of namespaces prints every namespace of the
\* collection once and in the order of the buckets of their phases: all
\* Active entries before all Terminating entries before all others.
C20_NamespaceBuckets ==
    (reg.op = "FormatResourceList" /\ reg.input # <<>> /\ GetKind(reg.input[1]) = "Namespace") =>
        LET list == reg.input
            names == EntryNames(reg.text)
            bucketOf(name) == Bucket(list[CHOOSE i \in DOMAIN list : GetName(list[i]) = name])
        IN  /\ Len(names) = Len(list)
            /\ \A i \in DOMAIN list :
                   Cardinality({k \in DOMAIN names : names[k] = GetName(list[i])})
                       = Cardinality({j \in DOMAIN list : GetName(list[j]) = GetName(list[i])})
            /\ \A k, l \in DOMAIN names : k < l => bucketOf(names[k]) <= bucketOf(names[l])

\* The kinds whose views show a status derived from the document.
StatusKinds == {"Pod", "Node", "VirtualMachine", "Volume", "Namespace"}

\* C21: for a document of a kind with a derived status, the status its
\* entry shows in the list view of the collection holding that document
\* is the status its detail view shows.
C21_ListStatusIsDetailStatus ==
    (reg.op = "FormatResource" /\ GetKind(reg.input[1]) \in StatusKinds) =>
        \A ord \in Orders :
            {e[2] : e \in EntryStatus(FormatterRegistry_FormatResourceList(defaultRegistry, reg.input, ord))}
                = DetailStatus(reg.text)

\* The titles of the kind-specific sections of the detail views, and of
\* the two metadata sections.
SectionTitles ==
    {"Containers:", "Ports:", "Selector:", "Conditions:", "Access Modes:", "Addresses:",
     "Allocatable Resources:", "Capacity:", "Configuration:", "External IPs:", "Networks:",
     "Node Info:", "Specification:", "Versions:", "Volumes:"}

MetadataTitles == {"Labels:", "Annotations:"}

\* The lines of a text below the first that begin with one of the pieces.
LinesOf(text, pieces) ==
    {i \in DOMAIN text \ {1} : text[i] # <<>> /\ text[i][1] \in pieces}

\* Every line of the first set stands above every line of the second.
Above(first, second) == \A i \in first, j \in second : i < j

\* C22: a per-kind detail view starts with the header that names the
\* resource; below it the namespace line, the status line, the creation
\* time, the titles of the kind-specific sections and the titles of the
\* labels and annotations follow one another in this order.
C22_DetailOrder ==
    (reg.op = "FormatResource" /\ GetKind(reg.input[1]) \in RegisteredKinds) =>
        LET text == reg.text
            namespace == LinesOf(text, {"Namespace: "})
            status == LinesOf(text, {"Status: "})
            created == LinesOf(text, {"Created: "})
            sections == LinesOf(text, SectionTitles)
            metadata == LinesOf(text, MetadataTitles)
        IN  /\ Len(text[1]) = 2 /\ text[1][2] = GetName(reg.input[1])
            /\ created # {}
            /\ Above(namespace, status \cup created \cup sections \cup metadata)
            /\ Above(status, created \cup sections \cup metadata)
            /\ Above(created, sections \cup metadata)
            /\ Above(sections, metadata)

\* The map at key of the document's metadata, empty when it has none.
MetadataMap(doc, key) ==
    IF /\ "metadata" \in DOMAIN doc.v /\ doc.v["metadata"].t = "map"
       /\ key \in DOMAIN doc.v["metadata"].v /\ doc.v["metadata"].v[key].t = "map"
    THEN doc.v["metadata"].v[key].v
    ELSE EmptyMap

\* The lines of the section of a text under the title: those below the
\* title line up to the next blank line.
SectionUnder(text, title) ==
    {text[i] : i \in {j \in DOMAIN text :
        \E t \in DOMAIN text :
            /\ text[t] = <<title>>
            /\ t < j
            /\ \A k \in t..j : k = t \/ text[k] # <<>>}}

\* The text has a section of that title with one "key: value" line for
\* each entry of the map, and no such section when the map is empty.
FlatSection(text, title, m) ==
    IF DOMAIN m = {}
    THEN \A i \in DOMAIN text : text[i] # <<title>>
    ELSE /\ Cardinality({i \in DOMAIN text : text[i] = <<title>>}) = 1
         /\ SectionUnder(text, title) = {<<"  ", k, ": ", m[k].v>> : k \in DOMAIN m}

\* C23: a per-kind detail view has a Labels section with one "key: value"
\* line for each label of the document when it has labels and none when
\* it has no label, and likewise an Annotations section for its
\* annotations.
C23_LabelsAndAnnotations ==
    (reg.op = "FormatResource" /\ GetKind(reg.input[1]) \in RegisteredKinds) =>
        /\ FlatSection(reg.text, "Labels:", MetadataMap(reg.input[1], "labels"))
        /\ FlatSection(reg.text, "Annotations:", MetadataMap(reg.input[1], "annotations"))

\* Optional string fields the detail views read, each with the kind that
\* reads it, its place in the document and the label of its line.
FieldLines ==
    { <<"Pod", "spec", "nodeName", "Node: ">>, <<"Pod", "status", "podIP", "Pod IP: ">>,
      <<"Pod", "status", "qosClass", "QoS Class: ">>,
      <<"Service", "spec", "type", "Type: ">>, <<"Service", "spec", "clusterIP", "Cluster IP: ">>,
      <<"Volume", "status", "state", "Status: ">>, <<"Volume", "spec", "size", "Size: ">>,
      <<"Volume", "spec", "storageClassName", "Storage Class: ">> }

\* The document holds a string at key of the section.
HasString(doc, section, key) ==
    /\ section \in DOMAIN doc.v /\ doc.v[section].t = "map"
    /\ key \in DOMAIN doc.v[section].v /\ doc.v[section].v[key].t = "string"

\* C24: when an optional field a per-kind detail view reads is absent
\* from the document or holds a value of another type, the view is still
\* rendered and has no line for that field.
C24_AbsentFieldNoLine ==
    reg.op = "FormatResource" =>
        /\ reg.text # <<>>
        /\ \A f \in FieldLines :
               (GetKind(reg.input[1]) = f[1] /\ ~HasString(reg.input[1], f[2], f[3])) =>
                   LinesOf(reg.text, {f[4]}) = {}

\* The top-level keys of a subtree of the document.
TopKeys(doc, section) ==
    IF section \in DOMAIN doc.v /\ doc.v[section].t = "map" THEN DOMAIN doc.v[section].v ELSE {}

\* The keys the text has a "key: value" line for.
KeysShown(text) == {text[i][2] : i \in {j \in DOMAIN text : Len(text[j]) = 4 /\ text[j][3] = ": "}}

\* C25: the detail view of a document of unregistered kind shows its
\* kind, its name, its namespace or, when that is empty, a cluster-wide
\* marker, its creation time and its labels, and has one "key: value"
\* line for each top-level key of its spec and of its status.
C25_FallbackDetail ==
    (reg.op = "FormatResource" /\ GetKind(reg.input[1]) \notin RegisteredKinds) =>
        LET doc == reg.input[1]
        IN  /\ Shows(reg.text, GetKind(doc))
            /\ Shows(reg.text, GetName(doc))
            /\ IF GetNamespace(doc) # ""
               THEN \E i \in DOMAIN reg.text : reg.text[i] = <<"Namespace: ", GetNamespace(doc)>>
               ELSE Shows(reg.text, "Scope: Cluster-wide")
            /\ Shows(reg.text, CreationTime(doc))
            /\ FlatSection(reg.text, "Labels:", MetadataMap(doc, "labels"))
            /\ TopKeys(doc, "spec") \cup TopKeys(doc, "status") \subseteq KeysShown(reg.text)

\* The entries of spec.template.spec.volumes of a document, none when the
\* list is absent.
VolumesOf(doc) ==
    LET at(m, k) == IF m.t = "map" /\ k \in DOMAIN m.v THEN m.v[k] ELSE Nil
        v == at(at(at(at(doc, "spec"), "template"), "spec"), "volumes")
    IN  IF v.t = "slice" THEN v.v ELSE <<>>

\* The lines of a text below the title line up to the next blank line.
SectionSeq(text, title) ==
    LET t == CHOOSE i \in DOMAIN text : text[i] = <<title>>
        ends == {j \in (t + 1)..Len(text) : text[j] = <<>>}
        e == IF ends = {} THEN Len(text) + 1 ELSE CHOOSE j \in ends : \A k \in ends : j <= k
    IN  SubSeq(text, t + 1, e - 1)

\* The type line and the detail line the claim gives a volume entry.
VolumeClass(volume) ==
    IF "persistentVolumeClaim" \in DOMAIN volume.v
    THEN << <<"    Type: PersistentVolumeClaim">>,
            <<"    Claim Name: ", volume.v["persistentVolumeClaim"].v["claimName"].v>> >>
    ELSE IF "containerDisk" \in DOMAIN volume.v
    THEN << <<"    Type: ContainerDisk">>, <<"    Image: ", volume.v["containerDisk"].v["image"].v>> >>
    ELSE IF "cloudInitNoCloud" \in DOMAIN volume.v
    THEN << <<"    Type: CloudInitNoCloud">> >>
    ELSE << <<"    Type: Other">> >>

\* C26: the detail view of a virtual machine has no Volumes section when
\* spec.template.spec.volumes is empty or absent; otherwise it has one,
\* with a block for each entry in the order of the list: the name of the
\* entry, then its type by the first of persistentVolumeClaim,
\* containerDisk and cloudInitNoCloud it carries ("Other" when none),
\* with the claim name or the image.
C26_VolumeClassification ==
    (reg.op = "FormatResource" /\ GetKind(reg.input[1]) = "VirtualMachine") =>
        LET volumes == VolumesOf(reg.input[1])
        IN  IF volumes = <<>>
            THEN \A i \in DOMAIN reg.text : reg.text[i] # <<"Volumes:">>
            ELSE /\ Cardinality({i \in DOMAIN reg.text : reg.text[i] = <<"Volumes:">>}) = 1
                 /\ LET sec == SectionSeq(reg.text, "Volumes:")
                        at == SelectSeq([i \in DOMAIN sec |-> i],
                                  LAMBDA i : Len(sec[i]) = 3 /\ sec[i][1] = "  " /\ sec[i][3] = ":")
                    IN  /\ Len(at) = Len(volumes)
                        /\ \A k \in DOMAIN at :
                               /\ sec[at[k]][2] = volumes[k].v["name"].v
                               /\ at[k] + Len(VolumeClass(volumes[k])) <= Len(sec)
                               /\ SubSeq(sec, at[k] + 1, at[k] + Len(VolumeClass(volumes[k])))
                                      = VolumeClass(volumes[k])

\* The detail view of a virtual machine whose first volume carries the
\* claim "disk-0", and whose second carries a claim and a container disk,
\* names "disk-0" under the type PersistentVolumeClaim.
C26_Witness ==
    /\ reg.op = "FormatResource"
    /\ GetKind(reg.input[1]) = "VirtualMachine"
    /\ Len(VolumesOf(reg.input[1])) = 5
    /\ \E i \in DOMAIN reg.text :
           /\ i + 1 \in DOMAIN reg.text
           /\ reg.text[i] = <<"    Type: PersistentVolumeClaim">>
           /\ reg.text[i + 1] = <<"    Claim Name: ", "disk-0">>
    /\ \E i \in DOMAIN reg.text : reg.text[i] = <<"    Claim Name: ", "disk-1">>
    /\ \E i \in DOMAIN reg.text : reg.text[i] = <<"    Type: Other">>

\* Every invocation can take its own next step whatever the other one is
\* doing: it can be invoked, answered or aborted, and delivered, and once
\* answered its handler has a continuation (a return, a further call or a
\* panic) for some order of its map ranges, which is all Continue asks
\* for besides the position of the invocation.
NoWaiting ==
    \A s \in Callers :
        ~crashed =>
            /\ inv[s].pc = "idle" => ENABLED InvokeSome(s)
            /\ inv[s].pc = "inflight" => ENABLED (Respond(s) \/ Abort(s))
            /\ inv[s].pc = "answered" =>
                   \E ord \in Orders :
                       Finish(inv[s].handler, inv[s].args, inv[s].answer, ord).kind
                           \in {"return", "await", "panic"}
            /\ inv[s].pc = "done" => ENABLED Deliver(s)

\* The result of a finished invocation is what its handler returns for
\* its own arguments and the answer to its own remote call.
OwnResult ==
    \A s \in Callers :
        inv[s].pc = "done" =>
            inv[s].result \in
                IF inv[s].ncalls = 0
                THEN {Start(inv[s].handler, "ctx", inv[s].args, TRUE).result}
                ELSE {Finish(inv[s].handler, inv[s].args, inv[s].answer, ord).result : ord \in Orders}

\* C27: with two invocations under way in any interleaving, the
\* resource-type table and the formatter registry are in every state what
\* the construction of the server made them, no invocation waits for the
\* other, and the result of each is what its handler returns for its own
\* arguments and the platform's answer to its own remote call.
C27_NoSharedMutableState ==
    /\ globals = [types |-> ResourceTypeToGVR, formatters |-> NewFormatterRegistry]
    /\ NoWaiting
    /\ OwnResult

\* One invocation has returned what the platform answered it while the
\* other, invoked before that, still waits for its answer.
C27_Witness ==
    /\ inv["a"].pc = "done"
    /\ inv["a"].handler = "get_pod"
    /\ inv["a"].ncalls = 1
    /\ inv["a"].answer.err = "nil"
    /\ inv["b"].pc = "inflight"
    /\ inv["b"].handler = "delete_pod"

\* C28: FormatResourceList of the registry on a non-empty collection takes
\* the formatter registered for the kind of the first item and hands it the
\* whole collection, whatever kinds the later items declare; when the kind
\* of the first item is not registered the whole collection is rendered by
\* the generic list formatter.
C28_FirstItemSelects ==
    (reg.op = "FormatResourceList" /\ Len(reg.input) > 0) =>
        LET first == GetKind(reg.input[1])
        IN  reg.text \in
                IF first \in DOMAIN NewFormatterRegistry
                THEN {CallFormatResourceList(NewFormatterRegistry[first], reg.input, ord) :
                          ord \in Orders}
                ELSE {genericResourceListFormatter(reg.input, ord) : ord \in Orders}

\* A pod first and a document of an unregistered kind second, rendered.
C28_Witness ==
    /\ reg.op = "FormatResourceList"
    /\ Len(reg.input) = 2
    /\ GetKind(reg.input[1]) = "Pod"
    /\ GetKind(reg.input[2]) = "Widget"
    /\ reg.text[1] = <<"Found ", Itoa(2), " pod(s):">>


\* The resource-type identifiers of a kind: the entries of the table whose
\* resource the platform serves under that kind.
IdentifiersOf(kind) ==
    {globals.types[type] : type \in {t \in DOMAIN globals.types :
                                        KindOfResource(globals.types[t].Resource) = kind}}

\* The document or collection last rendered declares one registered kind
\* throughout.
OfOneKind ==
    /\ reg.op # "none"
    /\ Len(reg.input) > 0
    /\ GetKind(reg.input[1]) \in RegisteredKinds
    /\ \A i \in DOMAIN reg.input : GetKind(reg.input[i]) = GetKind(reg.input[1])

\* What the resource handler makes of the input of the registry call.
ByIdentifier(gvr, ord) ==
    IF reg.op = "FormatResource"
    THEN ResourceHandler_FormatResource(globals.formatters, reg.input[1], gvr, ord)
    ELSE ResourceHandler_FormatResourceList(globals.formatters, reg.input, gvr, ord)

\* What the registry makes of it.
ByDeclaredKind(ord) ==
    IF reg.op = "FormatResource"
    THEN FormatterRegistry_FormatResource(globals.formatters, reg.input[1], ord)
    ELSE FormatterRegistry_FormatResourceList(globals.formatters, reg.input, ord)

\* C29: for each of the ten kinds and every document declaring it, the
\* resource handler called with an identifier of that kind renders the
\* document with the formatter the registry takes from the declared kind,
\* and so for a non-empty collection of that kind: every identifier of the
\* kind exists, none panics, and the two texts are equal.
C29_DispatchAgree ==
    OfOneKind =>
        /\ IdentifiersOf(GetKind(reg.input[1])) # {}
        /\ \A gvr \in IdentifiersOf(GetKind(reg.input[1])) :
               /\ \A ord \in Orders : ByIdentifier(gvr, ord) = Rendered(ByDeclaredKind(ord))
               /\ \E ord \in Orders : ByIdentifier(gvr, ord) = Rendered(reg.text)

\* Two volumes rendered as a collection by the registry.
C29_Witness ==
    /\ reg.op = "FormatResourceList"
    /\ Len(reg.input) = 2
    /\ OfOneKind
    /\ GetKind(reg.input[1]) = "Volume"
    /\ reg.text[1] = <<"Found ", Itoa(2), " volume(s):">>


\* The replica lines of a text: the lines that open with the word
\* "Replicas: ", indented or not.
ReplicaLines(text) ==
    SelectSeq(text, LAMBDA line : line # <<>> /\ line[1] \in {"Replicas: ", "    Replicas: "})

\* The numbers a replica line prints in front of one of the labels.
NumbersLabelled(line, labels) ==
    {line[i] : i \in {j \in 1..(Len(line) - 1) : line[j + 1] \in labels}}

\* The numbers the replica lines of a text print as total, available and
\* updated.
ReplicaNumbers(text) ==
    LET lines == ReplicaLines(text)
        of(labels) == UNION {NumbersLabelled(lines[i], labels) : i \in DOMAIN lines}
    IN  [total |-> of({" total | ", " total / "}),
         available |-> of({" available | ", " available / "}),
         updated |-> of({" updated | ", " updated"})]

\* C30: the numbers the detail view of a deployment document prints as
\* total, available and updated are the numbers the list view prints under
\* these words for the same document.
C30_DetailAndListNumbers ==
    (reg.op = "FormatResource" /\ GetKind(reg.input[1]) = "Deployment") =>
        \A ord \in Orders :
            ReplicaNumbers(reg.text) =
                ReplicaNumbers(FormatterRegistry_FormatResourceList(defaultRegistry, reg.input, ord))


====
